---- MODULE Spec2Model ----
(***************************************************************************)
(* A model of gist-fs: the in-memory node table (src/src/node.rs and the   *)
(* node-table crate), the Gist file set reconciled against the remote      *)
(* snapshot (src/src/fs.rs), and the cache-driven filesystem of            *)
(* src/src/lib.rs.                                                         *)
(***************************************************************************)
EXTENDS Integers, Sequences, FiniteSets, TLC

(***************************************************************************)
(* Bounds of the model.                                                    *)
(***************************************************************************)
\* nlookup is an AtomicCell<u64>; the model keeps the wrapping arithmetic on
\* a narrower counter of CounterBits bits.
CounterBits == 4
\* a lookup is only issued while the count is below MaxLookup
MaxLookup == 1
\* inode numbers handed out by the table-level specification stay <= MaxIno
MaxIno == 2

Names == {"a", "b", "c", "d"}
Kinds == {"Dir", "File", "Other"}
None == [ok |-> FALSE]

Modulus == 2 ^ CounterBits

\* ---------------------------------------------------------------------------
\* State
\* ---------------------------------------------------------------------------
VARIABLES
    nodes,      \* NodeTableInner.nodes: ino -> NodeInner (attr, kind, nlookup)
    next_ino,   \* NodeTableInner.next_ino
    removed,    \* history: the inodes remove_node has dropped, and whether the
                \* kernel still referenced them then
    minted,     \* history: the inode numbers new_node has returned, in order
    last,       \* the last operation and its reply
    files,      \* GistFiles: ino -> GistFileNode (filename, content)
    upd,        \* the task running GistFs::fetch_gist / GistFiles::update
    req,        \* the request task: the handle a Lookup or Getattr holds
    state,      \* src/src/lib.rs GistFsState: files, entries, gist, etag, expired
    now,        \* Utc::now(), in minutes
    remote,     \* the gist as the server holds it, and its entity tag
    heap,       \* node-table crate: every NodeInner ever allocated
    global,     \* node-table crate: NodeTableInner (nodes, next_ino)
    task,       \* node-table crate: the calls in flight, one per task
    inodes,     \* src/src/inode.rs INodeTable.inodes: ino -> INode
    next_id,    \* src/src/inode.rs INodeTable.next_id
    calls       \* the calls in flight that hold or wait for a Mutex, one per task

tableVars == <<nodes, next_ino, removed, minted, last>>
fsVars == <<files, upd, req>>
libVars == <<state, now, remote>>
ntVars == <<heap, global, task>>
inodeVars == <<inodes, next_id>>
callVars == <<calls>>
vars == <<tableVars, fsVars, libVars, ntVars, inodeVars, callVars>>
\* what the actions on the node table leave alone
notTable == <<fsVars, libVars, ntVars, inodeVars, callVars>>
\* what the actions of src/src/fs.rs leave alone, the node table apart
notFs == <<libVars, ntVars, inodeVars, callVars>>
\* what the actions of src/src/lib.rs leave alone
notLib == <<nodes, next_ino, removed, minted, fsVars, ntVars, inodeVars, callVars>>
\* what the actions of the node-table crate leave alone
notNt == <<nodes, next_ino, removed, minted, fsVars, libVars, inodeVars, callVars>>
\* what the actions of src/src/inode.rs leave alone
notINode == <<nodes, next_ino, removed, minted, fsVars, libVars, ntVars, callVars>>

\* ---------------------------------------------------------------------------
\* src/src/node.rs: DirNode
\* ---------------------------------------------------------------------------
\* the encoded length of a directory entry: a 24 byte header and the name
\* padded to a multiple of 8 bytes
EntryLen(name) == 24 + 8 * ((Len(name) + 7) \div 8)

\* DirNode::entries: the two dirents, then the children in insertion order
entries(ino, node) ==
    << [name |-> ".", ino |-> ino, off |-> 1],
       [name |-> "..", ino |-> node.dotdot, off |-> 2] >> \o node.children

RECURSIVE TakeWhileFits(_, _, _)
TakeWhileFits(es, total_len, bufsize) ==
    IF es = <<>> THEN <<>>
    ELSE IF total_len + EntryLen(Head(es).name) <= bufsize
         THEN <<Head(es)>> \o TakeWhileFits(Tail(es),
                                 total_len + EntryLen(Head(es).name), bufsize)
         ELSE <<>>

\* DirNode::reply_readdir: skip `offset` entries, take while the total fits
dir_reply_readdir(ino, node, offset, bufsize) ==
    LET es == entries(ino, node)
    IN  TakeWhileFits(IF offset >= Len(es) THEN <<>>
                      ELSE SubSeq(es, offset + 1, Len(es)), 0, bufsize)

ChildIndex(node, name) ==
    {i \in 1..Len(node.children) : node.children[i].name = name}

\* ---------------------------------------------------------------------------
\* src/src/node.rs: NodeTable
\* ---------------------------------------------------------------------------
\* NodeTable::new
RootNode ==
    [kind |-> "Dir", size |-> 0, nlookup |-> 1, dotdot |-> 1, children |-> <<>>]

\* NodeTable::get_node: a handle when the inode is in the table
get_node(ns, ino) ==
    IF ino \in DOMAIN ns THEN [ok |-> TRUE, nodeid |-> ino] ELSE None

\* NodeTable::lookup, the resolution: the handle of the child, or None
lookup_node(ns, parent, name) ==
    IF parent \notin DOMAIN ns THEN None
    ELSE IF ns[parent].kind # "Dir" THEN None
    ELSE IF ChildIndex(ns[parent], name) = {} THEN None
    ELSE LET nodeid == ns[parent].children[CHOOSE i \in ChildIndex(ns[parent], name) : TRUE].ino
         IN  IF nodeid \in DOMAIN ns THEN [ok |-> TRUE, nodeid |-> nodeid] ELSE None

\* AtomicCell<u64>::fetch_sub wraps around
fetch_sub(n, count) == (n - count + Modulus) % Modulus

\* AtomicCell<u64>::fetch_add wraps around
fetch_add(n, count) == (n + count) % Modulus

\* a forget that frees the inode whose count it has brought to zero
RECURSIVE forget_all_freeing(_, _)
forget_all_freeing(ns, forgets) ==
    IF forgets = <<>> THEN ns
    ELSE LET f == Head(forgets)
             n == IF f.ino \in DOMAIN ns
                  THEN [ns EXCEPT ![f.ino].nlookup = fetch_sub(@, f.nlookup)]
                  ELSE ns
         IN  forget_all_freeing(
                 IF f.ino \in DOMAIN n /\ n[f.ino].nlookup = 0
                 THEN [i \in DOMAIN n \ {f.ino} |-> n[i]]
                 ELSE n,
                 Tail(forgets))

\* NodeTable::forget: the entries in order; unknown inodes are skipped
RECURSIVE forget_all(_, _)
forget_all(ns, forgets) ==
    IF forgets = <<>> THEN ns
    ELSE LET f == Head(forgets)
         IN  forget_all(
                 IF f.ino \in DOMAIN ns
                 THEN [ns EXCEPT ![f.ino].nlookup = fetch_sub(@, f.nlookup)]
                 ELSE ns,
                 Tail(forgets))

\* NodeTable::new_node: the table after the call, the counter, and the reply
new_node(ns, nx, parent_ino, name, kind, size) ==
    IF parent_ino \notin DOMAIN ns
    THEN [nodes |-> ns, next_ino |-> nx, ok |-> FALSE, err |-> "ENOENT"]
    ELSE IF ns[parent_ino].kind # "Dir"
    THEN [nodes |-> ns, next_ino |-> nx, ok |-> FALSE, err |-> "ENOTDIR"]
    ELSE IF ChildIndex(ns[parent_ino], name) # {}
    THEN [nodes |-> ns, next_ino |-> nx, ok |-> FALSE, err |-> "EEXIST"]
    ELSE IF kind \notin {"Dir", "File"}
    \* next_ino.fetch_add(1) has run before the kind is examined
    THEN [nodes |-> ns, next_ino |-> nx + 1, ok |-> FALSE, err |-> "ENOTSUP"]
    ELSE LET ino == nx
             inner == [kind |-> kind, size |-> size, nlookup |-> 0,
                       dotdot |-> parent_ino, children |-> <<>>]
             dirent == [name |-> name, ino |-> ino,
                        off |-> Len(ns[parent_ino].children) + 3]
             withChild == [ns EXCEPT ![parent_ino].children = Append(@, dirent)]
         IN  [nodes |-> [i \in (DOMAIN ns) \cup {ino} |->
                            IF i = ino THEN inner ELSE withChild[i]],
              next_ino |-> nx + 1, ok |-> TRUE, ino |-> ino]

\* NodeTable::remove_node
remove_node(ns, ino) == [i \in (DOMAIN ns) \ {ino} |-> ns[i]]

\* NodeTable::reply_readdir
reply_readdir(ns, ino, offset, bufsize) ==
    IF ino \notin DOMAIN ns THEN [ok |-> FALSE, err |-> "ENOENT"]
    ELSE IF ns[ino].kind # "Dir" THEN [ok |-> FALSE, err |-> "ENOTDIR"]
    ELSE [ok |-> TRUE, entries |-> dir_reply_readdir(ino, ns[ino], offset, bufsize)]

\* ---------------------------------------------------------------------------
\* The node table driven through its public operations, each one atomic under
\* the `nodes` mutex it holds from its first line to its return.
\* ---------------------------------------------------------------------------
TableNames == {"a", "b"}
Inos == 1..(MaxIno + 1)
BufSizes == {64, 1024}
\* a Forget entry drops one reference, or one more than a lookup can have taken
ForgetEntries == [ino : Inos, nlookup : {1, MaxLookup + 1}]
\* a Forget request carries one entry, or two of which the first names an
\* inode number the table never hands out
ForgetBatches ==
    {<<f>> : f \in ForgetEntries}
        \cup {b \in {<<f, g>> : f \in ForgetEntries, g \in ForgetEntries} :
                b[1].ino = MaxIno + 1 /\ b[1].nlookup = 1 /\ b[2].ino # MaxIno + 1}

TableInit ==
    /\ nodes = (1 :> RootNode)
    /\ next_ino = 2
    /\ removed = {}
    /\ minted = <<>>
    /\ last = [op |-> "new"]

\* the state a specification that does not use src/src/fs.rs leaves alone
NoFs ==
    /\ files = <<>>
    /\ upd = [pc |-> "idle"]
    /\ req = [pc |-> "idle"]

\* the state a specification that does not use the node-table crate leaves alone
NoNt ==
    /\ heap = <<>>
    /\ global = [nodes |-> <<>>, next_ino |-> 0]
    /\ task = <<>>

\* the state a specification that does not use src/src/inode.rs leaves alone
NoINode ==
    /\ inodes = <<>>
    /\ next_id = 0

\* the state of a specification whose calls are not split at their locks
NoCalls == calls = <<>>

\* the state a specification that does not use src/src/lib.rs leaves alone
NoLib ==
    /\ state = [files |-> <<>>]
    /\ now = 0
    /\ remote = [etag |-> 0]

NewNode(parent, name, kind) ==
    /\ LET r == new_node(nodes, next_ino, parent, name, kind, 0)
       IN  /\ r.next_ino <= MaxIno + 1
           /\ nodes' = r.nodes
           /\ next_ino' = r.next_ino
           /\ minted' = IF r.ok THEN Append(minted, r.ino) ELSE minted
           /\ last' = [op |-> "new_node", ok |-> r.ok,
                       ret |-> IF r.ok THEN r.ino ELSE r.err]
    /\ UNCHANGED <<removed, notTable>>

Lookup(parent, name) ==
    LET r == lookup_node(nodes, parent, name)
    IN  /\ r.ok => \/ nodes[r.nodeid].nlookup < MaxLookup
                    \/ nodes[r.nodeid].nlookup = Modulus - 1
        /\ nodes' = IF r.ok
                    THEN [nodes EXCEPT ![r.nodeid].nlookup = fetch_add(@, 1)]
                    ELSE nodes
        /\ last' = [op |-> "lookup", parent |-> parent, name |-> name, ok |-> r.ok,
                    ret |-> IF r.ok THEN r.nodeid ELSE 0]
        /\ UNCHANGED <<next_ino, removed, minted, notTable>>

GetNode(ino) ==
    /\ last' = [op |-> "get_node", ino |-> ino, ok |-> get_node(nodes, ino).ok]
    /\ UNCHANGED <<nodes, next_ino, removed, minted, notTable>>

Forget(forgets) ==
    /\ \A i \in DOMAIN nodes : nodes[i].nlookup <= MaxLookup
    /\ nodes' = forget_all(nodes, forgets)
    /\ last' = [op |-> "forget", forgets |-> forgets]
    /\ UNCHANGED <<next_ino, removed, minted, notTable>>

RemoveNode(ino) ==
    /\ nodes' = remove_node(nodes, ino)
    /\ removed' = IF ino \in DOMAIN nodes
                  THEN removed \cup {[ino |-> ino, referenced |-> nodes[ino].nlookup > 0]}
                  ELSE removed
    /\ last' = [op |-> "remove_node", ino |-> ino]
    /\ UNCHANGED <<next_ino, minted, notTable>>

Readdir(ino, offset, bufsize) ==
    /\ last' = [op |-> "readdir", ino |-> ino, offset |-> offset,
                reply |-> reply_readdir(nodes, ino, offset, bufsize)]
    /\ UNCHANGED <<nodes, next_ino, removed, minted, notTable>>

TableNext ==
    \/ \E p \in Inos, n \in TableNames, k \in Kinds : NewNode(p, n, k)
    \/ \E p \in Inos, n \in TableNames : Lookup(p, n)
    \/ \E i \in Inos : GetNode(i)
    \/ \E fs \in ForgetBatches : Forget(fs)
    \/ \E i \in Inos : RemoveNode(i)
    \/ \E i \in Inos, b \in BufSizes : Readdir(i, 0, b)

\* the variables of the other components stay as they start
SpecTableInit == TableInit /\ NoFs /\ NoLib /\ NoNt /\ NoINode /\ NoCalls
SpecTable == SpecTableInit /\ [][TableNext]_vars

\* ---------------------------------------------------------------------------
\* Properties of the node table
\* ---------------------------------------------------------------------------
RemovedInos == {r.ino : r \in removed}

\* the count a forget floored at zero would leave
RECURSIVE floored_forget_all(_, _)
floored_forget_all(ns, forgets) ==
    IF forgets = <<>> THEN ns
    ELSE LET f == Head(forgets)
         IN  floored_forget_all(
                 IF f.ino \in DOMAIN ns
                 THEN [ns EXCEPT ![f.ino].nlookup =
                           IF f.nlookup > @ THEN 0 ELSE @ - f.nlookup]
                 ELSE ns,
                 Tail(forgets))

\* C1: a forget leaves every reference count at the old count minus the
\* forgotten count, floored at zero: the count never wraps around.
C1_ForgetFloorsAtZero ==
    [][\A fs \in ForgetBatches :
          Forget(fs) => nodes' = floored_forget_all(nodes, fs)]_vars

\* the names of directory `p` whose entry refers to inode `ino`
NamesOf(ns, p, ino) ==
    {ns[p].children[i].name : i \in {j \in 1..Len(ns[p].children) : ns[p].children[j].ino = ino}}

\* In src/src/node.rs both get_node and lookup resolve through `nodes`: once
\* remove_node has dropped a non-root inode, neither finds it again.
TableRemovedIsNotFound ==
    /\ \A r \in RemovedInos \ {1} :
          /\ ~get_node(nodes, r).ok
          /\ \A p \in DOMAIN nodes : \A n \in NamesOf(nodes, p, r) :
                ~lookup_node(nodes, p, n).ok
    /\ (last.op = "get_node" /\ last.ino \in RemovedInos \ {1}) => ~last.ok
    /\ (last.op = "lookup" /\ last.ok) => last.ret \notin RemovedInos

\* a lookup of the name of an inode that was removed while still referenced
\* has been answered
TableRemovedLookupAnswered ==
    /\ last.op = "lookup"
    /\ ~last.ok
    /\ last.parent \in DOMAIN nodes
    /\ \E r \in removed :
          /\ r.ino # 1
          /\ r.referenced
          /\ last.name \in NamesOf(nodes, last.parent, r.ino)

\* C3: remove_node unlinks the entry from the parent: no directory keeps an
\* entry for an inode that is not in the table, and readdir lists none.
C3_RemoveUnlinksEntry ==
    /\ \A p \in DOMAIN nodes : \A i \in 1..Len(nodes[p].children) :
          nodes[p].children[i].ino \in DOMAIN nodes
    /\ (last.op = "readdir" /\ last.reply.ok) =>
          \A i \in 1..Len(last.reply.entries) :
              last.reply.entries[i].name \in {".", ".."}
                  \/ last.reply.entries[i].ino \notin RemovedInos

\* the pages a reader gets who starts at cookie 0 and goes on from the cookie
\* of the last entry of each page until a page comes back empty
RECURSIVE paginate(_, _, _, _, _)
paginate(ino, node, cookie, bufsize, fuel) ==
    LET page == dir_reply_readdir(ino, node, cookie, bufsize)
    IN  IF page = <<>> \/ fuel = 0 THEN <<>>
        ELSE page \o paginate(ino, node, page[Len(page)].off, bufsize, fuel - 1)

PageSizes == {32, 64, 1024}
FitsAll(es, bufsize) == \A i \in 1..Len(es) : EntryLen(es[i].name) <= bufsize

\* In src/src/node.rs the pages of a directory, put together, are its entries,
\* "." and ".." first, each once and in cookie order.
TablePaginationIsComplete ==
    \A ino \in DOMAIN nodes : \A b \in PageSizes :
        (nodes[ino].kind = "Dir" /\ FitsAll(entries(ino, nodes[ino]), b)) =>
            paginate(ino, nodes[ino], 0, b, Len(nodes[ino].children) + 3)
                = entries(ino, nodes[ino])

\* the error codes the allocation of a child may answer with: ENOENT for an
\* absent parent, ENOTDIR for a parent that is a file, EEXIST for a name that
\* is taken, ENOTSUP for a kind that is neither directory nor regular file
AllocErrors(absent, isFile, taken, unsupported) ==
    (IF absent THEN {"ENOENT"}
     ELSE IF isFile THEN {"ENOTDIR"}
     ELSE IF taken THEN {"EEXIST"} ELSE {})
        \cup (IF unsupported THEN {"ENOTSUP"} ELSE {})

\* In src/src/node.rs new_node fails with the error of the case at hand and
\* then leaves the inodes and the entries of every directory as they were.
TableNewNodeFailsCleanly ==
    [][\A p \in Inos, n \in TableNames, k \in Kinds :
          NewNode(p, n, k) =>
              LET errs == AllocErrors(p \notin DOMAIN nodes,
                                      p \in DOMAIN nodes /\ nodes[p].kind = "File",
                                      p \in DOMAIN nodes /\ nodes[p].kind = "Dir"
                                          /\ ChildIndex(nodes[p], n) # {},
                                      k \notin {"Dir", "File"})
              IN  IF errs = {} THEN last'.ok
                  ELSE ~last'.ok /\ last'.ret \in errs /\ nodes' = nodes]_vars

\* C19: a lookup that resolves a child adds one to the count of that child and
\* changes no other count; a lookup that fails and a get_node change no count;
\* a node new_node has just created has the count zero.
C19_LookupCountsOne ==
    [][/\ \A p \in Inos, n \in TableNames :
            Lookup(p, n) =>
                LET r == lookup_node(nodes, p, n)
                IN  nodes' = IF r.ok
                             THEN [nodes EXCEPT ![r.nodeid].nlookup = @ + 1]
                             ELSE nodes
       /\ \A i \in Inos : GetNode(i) => nodes' = nodes
       /\ \A p \in Inos, n \in TableNames, k \in Kinds :
            (NewNode(p, n, k) /\ last'.ok) => nodes'[last'.ret].nlookup = 0]_vars

\* C20: inode 1 is always in the table, get_node(1) resolves it, and it is a
\* directory, whatever has been called, remove_node(1) included.
C20_RootIsNeverRemoved ==
    /\ 1 \in DOMAIN nodes
    /\ get_node(nodes, 1).ok
    /\ nodes[1].kind = "Dir"

\* the node table under the requests that change it: new_node, lookup, forget
\* and remove_node
ForgetNext ==
    \/ \E n \in TableNames, k \in {"Dir", "File"} : NewNode(1, n, k)
    \/ \E n \in TableNames : Lookup(1, n)
    \/ \E fs \in ForgetBatches : Forget(fs)
    \/ \E i \in Inos \ {1} : RemoveNode(i)

SpecForget == SpecTableInit /\ [][ForgetNext]_vars

\* the references a batch drops from inode i
RECURSIVE Dropped(_, _)
Dropped(forgets, i) ==
    IF forgets = <<>> THEN 0
    ELSE (IF Head(forgets).ino = i THEN Head(forgets).nlookup ELSE 0)
            + Dropped(Tail(forgets), i)

\* C30: forget deletes nothing: after a batch the same inodes are resolved,
\* every directory has the entries it had, kinds and sizes are as before and
\* no inode number is handed out; entries for unknown inodes are skipped and
\* the other entries of the batch are applied.
C30_ForgetDeletesNothing ==
    [][last'.op = "forget" =>
          LET fs == last'.forgets
          IN  /\ DOMAIN nodes' = DOMAIN nodes
              /\ next_ino' = next_ino
              /\ \A i \in DOMAIN nodes :
                    /\ [nodes'[i] EXCEPT !.nlookup = 0] = [nodes[i] EXCEPT !.nlookup = 0]
                    /\ Dropped(fs, i) <= nodes[i].nlookup =>
                          nodes'[i].nlookup = nodes[i].nlookup - Dropped(fs, i)
              /\ \A i \in Inos :
                    /\ get_node(nodes', i) = get_node(nodes, i)
                    /\ reply_readdir(nodes', i, 0, 1024) = reply_readdir(nodes, i, 0, 1024)
                    /\ \A n \in TableNames :
                          lookup_node(nodes', i, n) = lookup_node(nodes, i, n)]_vars

\* a batch whose first entry names an unknown inode has brought the count of
\* the inode of its second entry to zero, and the inode is still resolved
C30_Witness ==
    /\ last.op = "forget"
    /\ Len(last.forgets) = 2
    /\ last.forgets[1].ino \notin DOMAIN nodes
    /\ last.forgets[2].ino \in DOMAIN nodes \ {1}
    /\ nodes[last.forgets[2].ino].nlookup = 0
    /\ get_node(nodes, last.forgets[2].ino).ok
    /\ \E n \in TableNames :
          lookup_node(nodes, 1, n) = [ok |-> TRUE, nodeid |-> last.forgets[2].ino]

\* ---------------------------------------------------------------------------
\* src/src/fs.rs: GistFs over the node table
\* ---------------------------------------------------------------------------
\* fetch_gist is called at most MaxUpdates times
MaxUpdates == 3

\* the remote snapshots: Gist.files, filename -> (size, content)
GistFileOf(content) == [size |-> Len(content), content |-> content]
Snapshots ==
    { [n \in {"a", "b", "c"} |-> GistFileOf(<<1, 2>>)],
      [n \in {"b", "c", "d"} |-> GistFileOf(<<3, 4, 5>>)] }

\* the names the kernel looks up while the file set is reconciled
LookupNames == {"a"}

EmptyMap == [i \in {} |-> 0]
Without(f, k) == [i \in (DOMAIN f) \ {k} |-> f[i]]
With(f, k, v) == [i \in (DOMAIN f) \cup {k} |-> IF i = k THEN v ELSE f[i]]

IdleUpdate ==
    [pc |-> "idle", gist |-> EmptyMap, todo |-> {}, new_files |-> EmptyMap,
     old_files |-> EmptyMap, pre |-> EmptyMap, preMinted |-> {},
     preVisible |-> {}, count |-> 0, result |-> "none"]

\* GistFs::new
FsInit ==
    /\ TableInit
    /\ files = EmptyMap
    /\ upd = IdleUpdate
    /\ req = [pc |-> "idle"]

\* Node::attr: the attribute of the inode behind the handle; the handle is a
\* Weak pointer and upgrade().unwrap() panics once the table dropped the inode
node_attr(ns, nodeid) ==
    IF nodeid \in DOMAIN ns
    THEN [ok |-> TRUE, ino |-> nodeid, size |-> ns[nodeid].size]
    ELSE [ok |-> FALSE, err |-> "panic"]

\* GistFileNode::read
file_read(content, offset, size) ==
    IF offset > Len(content) THEN <<>>
    ELSE LET rest == SubSeq(content, offset + 1, Len(content))
             len == IF Len(rest) < size THEN Len(rest) ELSE size
         IN  SubSeq(rest, 1, len)

\* Operation::Read: GistFiles::get, then GistFileNode::read
read_reply(fs, ino, offset, size) ==
    IF ino \in DOMAIN fs
    THEN [ok |-> TRUE, data |-> file_read(fs[ino].content, offset, size)]
    ELSE [ok |-> FALSE, err |-> "ENOENT"]

\* what Lookup and Getattr can report of the root's files: the name, inode
\* number and size of every child of the root that NodeTable::lookup resolves
Visible(ns) ==
    IF 1 \notin DOMAIN ns THEN {}
    ELSE {[name |-> e.name, ino |-> e.ino, size |-> ns[e.ino].size] :
            e \in {ns[1].children[i] : i \in {j \in 1..Len(ns[1].children) :
                        ns[1].children[j].ino \in DOMAIN ns}}}

\* the inodes of GistFiles whose file has this name
FilesNamed(fs, name) == {ino \in DOMAIN fs : fs[ino].filename = name}

\* GistFs::fetch_gist: the client's fetch fails and nothing is updated
FetchGistFails ==
    /\ upd.pc = "idle"
    /\ last' = [op |-> "fetch_gist", ok |-> FALSE]
    /\ UNCHANGED <<nodes, next_ino, removed, minted, fsVars, notFs>>

\* GistFs::fetch_gist: the snapshot arrives and GistFiles::update takes the
\* lock of the file map
FetchGist(gist) ==
    /\ upd.pc = "idle"
    /\ upd.count < MaxUpdates
    /\ upd' = [pc |-> "loop", gist |-> gist, todo |-> DOMAIN gist,
               new_files |-> EmptyMap, old_files |-> EmptyMap,
               pre |-> [ino \in DOMAIN files |-> files[ino].filename],
               preMinted |-> {minted[i] : i \in 1..Len(minted)},
               preVisible |-> Visible(nodes),
               count |-> upd.count + 1, result |-> "none"]
    /\ last' = [op |-> "fetch_gist", ok |-> TRUE]
    /\ UNCHANGED <<nodes, next_ino, removed, minted, files, req, notFs>>

\* GistFiles::update, one turn of the loop over gist.files, for a name that
\* matches a local file: GistFileNode::update_content
UpdateExisting(name) ==
    /\ upd.pc = "loop"
    /\ name \in upd.todo
    /\ \E ino \in FilesNamed(files, name) :
          /\ files' = Without(files, ino)
          /\ IF node_attr(nodes, ino).ok
             THEN /\ nodes' = [nodes EXCEPT ![ino].size = upd.gist[name].size]
                  /\ upd' = [upd EXCEPT
                        !.todo = @ \ {name},
                        !.new_files = With(@, ino,
                            [filename |-> name, content |-> upd.gist[name].content])]
                  /\ last' = [op |-> "update_file", ok |-> TRUE]
             ELSE /\ nodes' = nodes
                  /\ upd' = [upd EXCEPT !.pc = "idle", !.result = "panic"]
                  /\ last' = [op |-> "update_file", ok |-> FALSE, err |-> "panic"]
    /\ UNCHANGED <<next_ino, removed, minted, req, notFs>>

\* GistFiles::update, one turn of the loop for a name with no local file:
\* NodeTable::new_node under the root; an error ends update at once
UpdateNew(name) ==
    /\ upd.pc = "loop"
    /\ name \in upd.todo
    /\ FilesNamed(files, name) = {}
    /\ LET r == new_node(nodes, next_ino, 1, name, "File", upd.gist[name].size)
       IN  /\ nodes' = r.nodes
           /\ next_ino' = r.next_ino
           /\ IF r.ok
              THEN /\ minted' = Append(minted, r.ino)
                   /\ upd' = [upd EXCEPT
                         !.todo = @ \ {name},
                         !.new_files = With(@, r.ino,
                             [filename |-> name, content |-> upd.gist[name].content])]
                   /\ last' = [op |-> "update_file", ok |-> TRUE]
              ELSE /\ minted' = minted
                   /\ upd' = [upd EXCEPT !.pc = "idle", !.result = "err"]
                   /\ last' = [op |-> "update_file", ok |-> FALSE, err |-> r.err]
    /\ UNCHANGED <<removed, files, req, notFs>>

\* GistFiles::update: std::mem::replace(&mut *files, new_files), lock released
UpdateSwap ==
    /\ upd.pc = "loop"
    /\ upd.todo = {}
    /\ files' = upd.new_files
    /\ upd' = [upd EXCEPT !.pc = "remove", !.old_files = files, !.new_files = EmptyMap]
    /\ last' = [op |-> "update_swap"]
    /\ UNCHANGED <<nodes, next_ino, removed, minted, req, notFs>>

\* GistFiles::update: remove_node for one of the old files
UpdateRemove(ino) ==
    /\ upd.pc = "remove"
    /\ ino \in DOMAIN upd.old_files
    /\ nodes' = remove_node(nodes, ino)
    /\ removed' = IF ino \in DOMAIN nodes
                  THEN removed \cup {[ino |-> ino, referenced |-> nodes[ino].nlookup > 0,
                                       name |-> upd.old_files[ino].filename]}
                  ELSE removed
    /\ upd' = [upd EXCEPT !.old_files = Without(@, ino)]
    /\ last' = [op |-> "update_remove", ino |-> ino]
    /\ UNCHANGED <<next_ino, minted, files, req, notFs>>

\* GistFiles::update returns Ok
UpdateDone ==
    /\ upd.pc = "remove"
    /\ DOMAIN upd.old_files = {}
    /\ upd' = [upd EXCEPT !.pc = "idle", !.result = "ok"]
    /\ last' = [op |-> "update_done"]
    /\ UNCHANGED <<nodes, next_ino, removed, minted, files, req, notFs>>

\* Operation::Lookup: NodeTable::lookup; the reply is built from the handle
\* afterwards
FsLookup(parent, name) ==
    /\ req.pc = "idle"
    /\ LET r == lookup_node(nodes, parent, name)
       IN  /\ r.ok => nodes[r.nodeid].nlookup < MaxLookup
           /\ nodes' = IF r.ok
                       THEN [nodes EXCEPT ![r.nodeid].nlookup = fetch_add(@, 1)]
                       ELSE nodes
           /\ req' = IF r.ok THEN [pc |-> "lookup", node |-> r.nodeid] ELSE req
           /\ last' = IF r.ok THEN [op |-> "lookup_node", name |-> name]
                      ELSE [op |-> "lookup", name |-> name, ok |-> FALSE, err |-> "ENOENT"]
    /\ UNCHANGED <<next_ino, removed, minted, files, upd, notFs>>

\* Operation::Getattr: NodeTable::get_node; the reply is built from the handle
\* afterwards
FsGetattr(ino) ==
    /\ req.pc = "idle"
    /\ LET r == get_node(nodes, ino)
       IN  /\ req' = IF r.ok THEN [pc |-> "getattr", node |-> r.nodeid] ELSE req
           /\ last' = IF r.ok THEN [op |-> "get_node", ino |-> ino]
                      ELSE [op |-> "getattr", ino |-> ino, ok |-> FALSE, err |-> "ENOENT"]
    /\ UNCHANGED <<nodes, next_ino, removed, minted, files, upd, notFs>>

\* Operation::Lookup / Operation::Getattr: node.attr() and the reply
FsReplyAttr ==
    /\ req.pc \in {"lookup", "getattr"}
    /\ LET a == node_attr(nodes, req.node)
       IN  last' = IF a.ok
                   THEN [op |-> req.pc, ok |-> TRUE, ino |-> a.ino, size |-> a.size]
                   ELSE [op |-> req.pc, ok |-> FALSE, err |-> a.err, ino |-> req.node]
    /\ req' = [pc |-> "idle"]
    /\ UNCHANGED <<nodes, next_ino, removed, minted, files, upd, notFs>>

\* Operation::Forget
FsForget(forgets) ==
    /\ req.pc = "idle"
    /\ \A i \in DOMAIN nodes : nodes[i].nlookup <= MaxLookup
    /\ nodes' = forget_all(nodes, forgets)
    /\ last' = [op |-> "forget"]
    /\ UNCHANGED <<next_ino, removed, minted, fsVars, notFs>>

\* Operation::Read: waits for the lock of the file map
FsRead(ino, offset, size) ==
    /\ req.pc = "idle"
    /\ upd.pc # "loop"
    /\ last' = [op |-> "read", ino |-> ino, reply |-> read_reply(files, ino, offset, size)]
    /\ UNCHANGED <<nodes, next_ino, removed, minted, fsVars, notFs>>

\* Operation::Readdir
FsReaddir(ino, offset, bufsize) ==
    /\ req.pc = "idle"
    /\ last' = [op |-> "readdir", ino |-> ino, offset |-> offset,
                reply |-> reply_readdir(nodes, ino, offset, bufsize)]
    /\ UNCHANGED <<nodes, next_ino, removed, minted, fsVars, notFs>>

FsNext ==
    \/ FetchGistFails
    \/ \E g \in Snapshots : FetchGist(g)
    \/ \E n \in Names : UpdateExisting(n)
    \/ \E n \in Names : UpdateNew(n)
    \/ UpdateSwap
    \/ \E i \in 2..6 : UpdateRemove(i)
    \/ UpdateDone
    \/ \E n \in LookupNames : FsLookup(1, n)
    \/ \E i \in 1..3 : FsGetattr(i)
    \/ FsReplyAttr
    \/ \E i \in 2..3 : FsForget(<<[ino |-> i, nlookup |-> 1]>>)
    \/ \E i \in 2..3 : FsRead(i, 0, 10)
    \/ FsReaddir(1, 0, 1024)

\* the variables of the other components stay as they start
SpecFsInit == FsInit /\ NoLib /\ NoNt /\ NoINode /\ NoCalls
SpecFs == SpecFsInit /\ [][FsNext]_vars

\* ---------------------------------------------------------------------------
\* Properties of the reconciliation of src/src/fs.rs
\* ---------------------------------------------------------------------------
Range(f) == {f[i] : i \in DOMAIN f}
FileNames(fs) == {fs[i].filename : i \in DOMAIN fs}
UpdateReturnedOk == upd.pc = "idle" /\ upd.result = "ok"
UpdateReturnedErr == upd.pc = "idle" /\ upd.result = "err"

UpdateReturned == UpdateReturnedOk \/ UpdateReturnedErr

\* the files are exactly the snapshot's names; every name that was there
\* before keeps its inode number; every new name has an inode number that was
\* never handed out before; the inode number of every dropped name is resolved
\* neither by get_node nor by a read
IdStable ==
    /\ FileNames(files) = DOMAIN upd.gist
    /\ \A ino \in DOMAIN upd.pre :
          IF upd.pre[ino] \in DOMAIN upd.gist
          THEN /\ ino \in DOMAIN files
               /\ files[ino].filename = upd.pre[ino]
               /\ lookup_node(nodes, 1, upd.pre[ino]) = [ok |-> TRUE, nodeid |-> ino]
          ELSE /\ ~get_node(nodes, ino).ok
               /\ ~read_reply(files, ino, 0, 10).ok
    /\ \A ino \in DOMAIN files :
          files[ino].filename \notin Range(upd.pre) =>
              /\ ino \notin upd.preMinted
              /\ lookup_node(nodes, 1, files[ino].filename) = [ok |-> TRUE, nodeid |-> ino]

\* C4: once the files {a, b, c} have been reconciled against the snapshot
\* {b, c, d}, b and c have the inode numbers they had, d has a number that was
\* never handed out before, and the number that was a's is resolved neither by
\* get_node nor by a read.
C4_ReconcileIsIdStable ==
    (/\ UpdateReturned
     /\ Range(upd.pre) = {"a", "b", "c"}
     /\ DOMAIN upd.gist = {"b", "c", "d"}) => IdStable

\* every update that returns Ok is name-keyed and id-stable
OkUpdateIsIdStable == UpdateReturnedOk => IdStable

\* the files {a, b, c} have been reconciled against {b, c, d}, and a read of
\* the inode that was a's has been answered
OkUpdateReadOfDropped ==
    /\ UpdateReturnedOk
    /\ Range(upd.pre) = {"a", "b", "c"}
    /\ DOMAIN upd.gist = {"b", "c", "d"}
    /\ last.op = "read"
    /\ last.ino \in DOMAIN upd.pre
    /\ upd.pre[last.ino] = "a"
    /\ ~last.reply.ok

\* what the files look like to Lookup and Getattr once the snapshot is applied
IsPostState(vis) ==
    /\ {v.name : v \in vis} = DOMAIN upd.gist
    /\ \A v \in vis : v.size = upd.gist[v.name].size

\* C7: whatever a request sees of the files while an update runs is the file
\* set from before the update or the file set of the snapshot, never a mixture.
C7_ReconcileIsAtomic ==
    upd.pc \in {"loop", "remove"} =>
        \/ Visible(nodes) = upd.preVisible
        \/ IsPostState(Visible(nodes))

\* C8: when update returns an error, every file that was there before and is
\* in the snapshot is still resolved by lookup and readable by its inode
\* number, and every file inode of the table has a content buffer.
C8_FailureKeepsOtherFiles ==
    UpdateReturnedErr =>
        /\ \A ino \in DOMAIN upd.pre :
              upd.pre[ino] \in DOMAIN upd.gist =>
                  /\ lookup_node(nodes, 1, upd.pre[ino]).ok
                  /\ read_reply(files, ino, 0, 10).ok
        /\ \A ino \in DOMAIN nodes : nodes[ino].kind = "File" => ino \in DOMAIN files

\* C9: a request holding the handle of an inode that has been removed since is
\* answered ENOENT: it does not panic and does not report the inode's data.
C9_StaleHandleIsNotFound ==
    /\ (last.op \in {"lookup", "getattr"} /\ ~last.ok) => last.err = "ENOENT"
    /\ (last.op \in {"lookup", "getattr"} /\ last.ok) => last.ino \notin RemovedInos

\* C24: once update has reconciled a file whose name was there before, the
\* file has the inode number it had, its size attribute is the snapshot's
\* size and a read returns the snapshot's content.
C24_ReconcileUpdatesInPlace ==
    UpdateReturned =>
        \A ino \in DOMAIN upd.pre :
            LET name == upd.pre[ino]
            IN  (name \in DOMAIN upd.gist /\ name \notin upd.todo) =>
                    /\ ino \in DOMAIN files
                    /\ files[ino].filename = name
                    /\ ino \in DOMAIN nodes
                    /\ nodes[ino].size = upd.gist[name].size
                    /\ read_reply(files, ino, 0, 10)
                          = [ok |-> TRUE, data |-> upd.gist[name].content]

\* every update that returns Ok has updated the files it kept in place
OkUpdateUpdatesInPlace ==
    UpdateReturnedOk =>
        \A ino \in DOMAIN upd.pre :
            LET name == upd.pre[ino]
            IN  name \in DOMAIN upd.gist =>
                    /\ ino \in DOMAIN files
                    /\ files[ino].filename = name
                    /\ nodes[ino].size = upd.gist[name].size
                    /\ read_reply(files, ino, 0, 10)
                          = [ok |-> TRUE, data |-> upd.gist[name].content]

\* the names that update has dropped and that are not among the files now
DroppedNames == {r.name : r \in removed}

\* C31: when a snapshot holds a name that an earlier update dropped, update
\* returns Ok, the name has a file again whose inode number is none of those
\* it had, lookup of the name under the root resolves that inode, and a read
\* of it returns the snapshot's content.
C31_DroppedNameIsRecreated ==
    UpdateReturned =>
        \A name \in (DOMAIN upd.gist \cap DroppedNames) \ Range(upd.pre) :
            /\ upd.result = "ok"
            /\ \E ino \in FilesNamed(files, name) :
                  /\ \A r \in removed : r.name = name => r.ino # ino
                  /\ lookup_node(nodes, 1, name) = [ok |-> TRUE, nodeid |-> ino]
                  /\ read_reply(files, ino, 0, 10)
                        = [ok |-> TRUE, data |-> upd.gist[name].content]

\* ---------------------------------------------------------------------------
\* src/src/fs.rs: GistFs::fetch_gist called by two tasks at once
\* ---------------------------------------------------------------------------
Updaters == {1, 2}

IdleCall ==
    [pc |-> "idle", gist |-> EmptyMap, todo |-> {}, new_files |-> EmptyMap,
     old_files |-> EmptyMap, count |-> 0]

\* what the actions of the two updating tasks leave alone
notPair == <<removed, upd, req, libVars, ntVars, inodeVars>>

\* the Mutex of GistFiles is held from the start of GistFiles::update to the
\* end of the block that ends with std::mem::replace
FilesLocked == \E u \in Updaters : calls[u].pc = "loop"

\* GistFs::new, and no call of fetch_gist in flight
PairInit ==
    /\ FsInit
    /\ calls = [t \in Updaters |-> IdleCall]

\* GistFs::fetch_gist: the snapshot has arrived and `self.0.lock().await` of
\* GistFiles::update returns
PairFetchGist(t, gist) ==
    /\ calls[t].pc = "idle"
    /\ ~FilesLocked
    /\ calls[1].count + calls[2].count < MaxUpdates
    /\ calls' = [calls EXCEPT ![t] =
                    [pc |-> "loop", gist |-> gist, todo |-> DOMAIN gist,
                     new_files |-> EmptyMap, old_files |-> EmptyMap,
                     count |-> calls[t].count + 1]]
    /\ last' = [op |-> "fetch_gist", ok |-> TRUE, task |-> t]
    /\ UNCHANGED <<nodes, next_ino, minted, files, notPair>>

\* GistFiles::update, one turn of the loop for a name that matches a local
\* file: GistFileNode::update_content
PairUpdateExisting(t, name) ==
    /\ calls[t].pc = "loop"
    /\ name \in calls[t].todo
    /\ \E ino \in FilesNamed(files, name) :
          /\ files' = Without(files, ino)
          /\ IF node_attr(nodes, ino).ok
             THEN /\ nodes' = [nodes EXCEPT ![ino].size = calls[t].gist[name].size]
                  /\ calls' = [calls EXCEPT
                        ![t].todo = @ \ {name},
                        ![t].new_files = With(@, ino,
                            [filename |-> name, content |-> calls[t].gist[name].content])]
                  /\ last' = [op |-> "update_file", ok |-> TRUE, task |-> t]
             ELSE /\ nodes' = nodes
                  /\ calls' = [calls EXCEPT ![t] = [IdleCall EXCEPT !.count = calls[t].count]]
                  /\ last' = [op |-> "update_file", ok |-> FALSE, err |-> "panic", task |-> t]
    /\ UNCHANGED <<next_ino, minted, notPair>>

\* GistFiles::update, one turn of the loop for a name with no local file:
\* NodeTable::new_node under the root; an error ends update at once
PairUpdateNew(t, name) ==
    /\ calls[t].pc = "loop"
    /\ name \in calls[t].todo
    /\ FilesNamed(files, name) = {}
    /\ LET r == new_node(nodes, next_ino, 1, name, "File", calls[t].gist[name].size)
       IN  /\ nodes' = r.nodes
           /\ next_ino' = r.next_ino
           /\ IF r.ok
              THEN /\ minted' = Append(minted, r.ino)
                   /\ calls' = [calls EXCEPT
                         ![t].todo = @ \ {name},
                         ![t].new_files = With(@, r.ino,
                             [filename |-> name, content |-> calls[t].gist[name].content])]
                   /\ last' = [op |-> "update_file", ok |-> TRUE, task |-> t]
              ELSE /\ minted' = minted
                   /\ calls' = [calls EXCEPT ![t] = [IdleCall EXCEPT !.count = calls[t].count]]
                   /\ last' = [op |-> "update_file", ok |-> FALSE, err |-> r.err, task |-> t]
    /\ UNCHANGED <<files, notPair>>

\* GistFiles::update: std::mem::replace(&mut *files, new_files); the guard of
\* the Mutex is dropped at the end of the block
PairSwap(t) ==
    /\ calls[t].pc = "loop"
    /\ calls[t].todo = {}
    /\ files' = calls[t].new_files
    /\ calls' = [calls EXCEPT ![t].pc = "remove", ![t].old_files = files,
                              ![t].new_files = EmptyMap]
    /\ last' = [op |-> "update_swap", task |-> t]
    /\ UNCHANGED <<nodes, next_ino, minted, notPair>>

\* GistFiles::update: remove_node for one of the old files, the Mutex of
\* GistFiles no longer held
PairRemove(t, ino) ==
    /\ calls[t].pc = "remove"
    /\ ino \in DOMAIN calls[t].old_files
    /\ nodes' = remove_node(nodes, ino)
    /\ calls' = [calls EXCEPT ![t].old_files = Without(@, ino)]
    /\ last' = [op |-> "update_remove", ino |-> ino, task |-> t]
    /\ UNCHANGED <<next_ino, minted, files, notPair>>

\* GistFiles::update returns Ok
PairDone(t) ==
    /\ calls[t].pc = "remove"
    /\ DOMAIN calls[t].old_files = {}
    /\ calls' = [calls EXCEPT ![t] = [IdleCall EXCEPT !.count = calls[t].count]]
    /\ last' = [op |-> "update_done", task |-> t]
    /\ UNCHANGED <<nodes, next_ino, minted, files, notPair>>

PairNext ==
    \/ \E t \in Updaters, g \in Snapshots : PairFetchGist(t, g)
    \/ \E t \in Updaters, n \in Names : PairUpdateExisting(t, n)
    \/ \E t \in Updaters, n \in Names : PairUpdateNew(t, n)
    \/ \E t \in Updaters : PairSwap(t)
    \/ \E t \in Updaters, i \in 2..6 : PairRemove(t, i)
    \/ \E t \in Updaters : PairDone(t)

SpecFsPairInit == PairInit /\ NoLib /\ NoNt /\ NoINode
SpecFsPair == SpecFsPairInit /\ [][PairNext]_vars

\* a step of the reconciliation that task t runs
ReconcileStep(t) ==
    \/ \E n \in Names : PairUpdateExisting(t, n) \/ PairUpdateNew(t, n)
    \/ PairSwap(t)
    \/ \E i \in 2..6 : PairRemove(t, i)

\* task u is in a reconciliation and has a step of it still to take
MidReconcile(u) ==
    \/ calls[u].pc = "loop"
    \/ calls[u].pc = "remove" /\ DOMAIN calls[u].old_files # {}

\* C23: at most one reconciliation runs at a time: no step of one (update of
\* a file, allocation of an inode, swap of the file set, removal of an inode)
\* is taken while another one has steps still to take.
C23_OneReconcileAtATime ==
    [][\A t \in Updaters :
          ReconcileStep(t) => \A u \in Updaters \ {t} : ~MidReconcile(u)]_vars

\* ---------------------------------------------------------------------------
\* src/src/lib.rs: GistFs over GistFsState, refreshed by opendir
\* ---------------------------------------------------------------------------
ROOT_INO == 1
\* cache_period: Duration::minutes(5)
CachePeriod == 5
\* the clock stops at MaxTime minutes
MaxTime == 12
\* the gist is edited on the server at most MaxEdits times
MaxEdits == 2

Some(bytes) == [some |-> TRUE, bytes |-> bytes]
NoContent == [some |-> FALSE]

\* gist_client::GistFile: filename -> (size, truncated, content)
RemoteFile(content, truncated) ==
    [size |-> Len(content), truncated |-> truncated,
     content |-> IF truncated THEN <<>> ELSE content]
LibSnapshots ==
    { [n \in {"a"} |-> RemoteFile(<<1, 2>>, FALSE)],
      [n \in {"a"} |-> RemoteFile(<<3, 4, 5>>, FALSE)],
      [n \in {"a", "b"} |-> RemoteFile(<<3, 4, 5>>, FALSE)],
      [n \in {"b"} |-> RemoteFile(<<1, 2>>, FALSE)],
      [n \in {"a"} |-> RemoteFile(<<1, 2>>, TRUE)] }

Bijections(S, T) == {f \in [S -> T] : \A x, y \in S : x # y => f[x] # f[y]}

\* GistFs::new: the files of the first snapshot get the inode numbers from 2
\* on, in the order the HashMap yields them; the entries are ".", ".." and one
\* per file, again in HashMap order
NewState(gist, etag, inoOf, posOf, t) ==
    LET n == Cardinality(DOMAIN gist)
        nameAt(i) == CHOOSE name \in DOMAIN gist : inoOf[name] = i
        nameAtPos(k) == CHOOSE name \in DOMAIN gist : posOf[name] = k
    IN  [files |-> [i \in 2..(n + 1) |->
                      [size |-> gist[nameAt(i)].size, mtime |-> etag,
                       filename |-> nameAt(i),
                       content |-> IF ~gist[nameAt(i)].truncated
                                   THEN Some(gist[nameAt(i)].content)
                                   ELSE NoContent]],
         entries |-> << [name |-> ".", ino |-> ROOT_INO, off |-> 1],
                        [name |-> "..", ino |-> ROOT_INO, off |-> 2] >>
                     \o [k \in 1..n |->
                           [name |-> nameAtPos(k), ino |-> inoOf[nameAtPos(k)],
                            off |-> k + 2]],
         gist |-> gist, etag |-> etag, expired |-> t + CachePeriod]

LibInitFrom(snapshots) ==
    /\ now = 0
    /\ \E gist \in snapshots :
          /\ remote = [gist |-> gist, etag |-> 1]
          /\ \E inoOf \in Bijections(DOMAIN gist, 2..(Cardinality(DOMAIN gist) + 1)),
                posOf \in Bijections(DOMAIN gist, 1..Cardinality(DOMAIN gist)) :
                state = NewState(gist, 1, inoOf, posOf, 0)
    /\ last = [op |-> "new"]

LibInit == LibInitFrom(LibSnapshots)

\* the state a specification that does not use the node table leaves alone
NoTable ==
    /\ nodes = <<>>
    /\ next_ino = 0
    /\ removed = {}
    /\ minted = <<>>

\* gist_client::Client::fetch_gist, as the server answers it: 304 when the
\* entity tag is the current one, else the gist and its tag
fetch_gist(etag) ==
    IF etag = remote.etag THEN [modified |-> FALSE]
    ELSE [modified |-> TRUE, gist |-> remote.gist, etag |-> remote.etag]

\* GistFs::fetch, the Some((gist, etag)) arm: every file whose name is in the
\* snapshot gets its times, size and (unless truncated) content; names the
\* state does not have are ignored
apply_gist(st, gist, etag) ==
    [st EXCEPT
        !.files = [i \in DOMAIN st.files |->
                     LET f == st.files[i]
                     IN  IF f.filename \in DOMAIN gist
                         THEN [f EXCEPT
                                 !.mtime = etag,
                                 !.size = gist[f.filename].size,
                                 !.content = IF ~gist[f.filename].truncated
                                             THEN Some(gist[f.filename].content)
                                             ELSE @]
                         ELSE f],
        !.gist = gist,
        !.etag = etag]

\* the clock advances
Tick ==
    /\ now < MaxTime
    /\ now' = now + 1
    /\ UNCHANGED <<state, remote, last, notLib>>

\* somebody edits the gist on the server
RemoteEdit(gist) ==
    /\ remote.etag <= MaxEdits
    /\ gist # remote.gist
    /\ remote' = [gist |-> gist, etag |-> remote.etag + 1]
    /\ UNCHANGED <<state, now, last, notLib>>

\* history: how the fetch of the request before ended, if that was an opendir
PrevFetch == IF last.op = "opendir" THEN last.fetch ELSE "other"

\* GistFs::do_opendir, the cache still valid: GistFs::fetch returns at once
LibOpendirFresh(ino) ==
    /\ now <= state.expired
    /\ last' = [op |-> "opendir", ino |-> ino, fetch |-> "none", reply |-> "ok",
                etag |-> state.etag, prev |-> PrevFetch]
    /\ UNCHANGED <<state, now, remote, notLib>>

\* an opendir whose failed fetch also forgets the entity tag
LibOpendirErrorDropsTag(ino) ==
    /\ now > state.expired
    /\ state' = [state EXCEPT !.expired = now + CachePeriod, !.etag = 0]
    /\ last' = [op |-> "opendir", ino |-> ino, fetch |-> "error", reply |-> "EIO",
                etag |-> state.etag, prev |-> PrevFetch]
    /\ UNCHANGED <<now, remote, notLib>>

\* GistFs::do_opendir, the cache expired and the fetch fails
LibOpendirError(ino) ==
    /\ now > state.expired
    /\ state' = [state EXCEPT !.expired = now + CachePeriod]
    /\ last' = [op |-> "opendir", ino |-> ino, fetch |-> "error", reply |-> "EIO",
                etag |-> state.etag, prev |-> PrevFetch]
    /\ UNCHANGED <<now, remote, notLib>>

\* an opendir that asks the server whether the cache has expired or not
LibOpendirFetchedAlways(ino) ==
    /\ LET r == fetch_gist(state.etag)
           st == [state EXCEPT !.expired = now + CachePeriod]
       IN  /\ state' = IF r.modified THEN apply_gist(st, r.gist, r.etag) ELSE st
           /\ last' = [op |-> "opendir", ino |-> ino,
                       fetch |-> IF r.modified THEN "modified" ELSE "not_modified",
                       reply |-> "ok", etag |-> state.etag, prev |-> PrevFetch]
    /\ UNCHANGED <<now, remote, notLib>>

\* an opendir that moves the expiry time only when the gist was modified
LibOpendirFetchedLate(ino) ==
    /\ now > state.expired
    /\ LET r == fetch_gist(state.etag)
           st == [state EXCEPT !.expired = now + CachePeriod]
       IN  /\ state' = IF r.modified THEN apply_gist(st, r.gist, r.etag) ELSE state
           /\ last' = [op |-> "opendir", ino |-> ino,
                       fetch |-> IF r.modified THEN "modified" ELSE "not_modified",
                       reply |-> "ok", etag |-> state.etag, prev |-> PrevFetch]
    /\ UNCHANGED <<now, remote, notLib>>

\* GistFs::do_opendir, the cache expired and the server answers
LibOpendirFetched(ino) ==
    /\ now > state.expired
    /\ LET r == fetch_gist(state.etag)
           st == [state EXCEPT !.expired = now + CachePeriod]
       IN  /\ state' = IF r.modified THEN apply_gist(st, r.gist, r.etag) ELSE st
           /\ last' = [op |-> "opendir", ino |-> ino,
                       fetch |-> IF r.modified THEN "modified" ELSE "not_modified",
                       reply |-> "ok", etag |-> state.etag, prev |-> PrevFetch]
    /\ UNCHANGED <<now, remote, notLib>>

\* GistFs::do_lookup
lib_lookup(st, parent, name) ==
    IF parent # ROOT_INO THEN [ok |-> FALSE, err |-> "ENOENT"]
    ELSE IF \E i \in DOMAIN st.files : st.files[i].filename = name
    THEN LET i == CHOOSE i \in DOMAIN st.files : st.files[i].filename = name
         IN  [ok |-> TRUE, ino |-> i, size |-> st.files[i].size]
    ELSE [ok |-> FALSE, err |-> "ENOENT"]

LibLookup(parent, name) ==
    /\ last' = [op |-> "lookup", parent |-> parent, name |-> name,
                reply |-> lib_lookup(state, parent, name)]
    /\ UNCHANGED <<state, now, remote, notLib>>

\* GistFs::do_readdir
lib_readdir(st, offset, size) ==
    TakeWhileFits(IF offset >= Len(st.entries) THEN <<>>
                  ELSE SubSeq(st.entries, offset + 1, Len(st.entries)), 0, size)

LibReaddir(ino, offset, size) ==
    /\ last' = [op |-> "readdir", ino |-> ino, offset |-> offset,
                reply |-> [ok |-> TRUE, entries |-> lib_readdir(state, offset, size)]]
    /\ UNCHANGED <<state, now, remote, notLib>>

\* the inode numbers opendir and readdir are asked for: the root, and one
\* that GistFs::new never hands out
DirInos == {ROOT_INO, 9}

LibNext ==
    \/ Tick
    \/ \E g \in LibSnapshots : RemoteEdit(g)
    \/ \E i \in DirInos : LibOpendirFresh(i)
    \/ \E i \in DirInos : LibOpendirError(i)
    \/ \E i \in DirInos : LibOpendirFetched(i)
    \/ \E n \in {"a", "b"} : LibLookup(ROOT_INO, n)
    \/ \E i \in DirInos : LibReaddir(i, 0, 1024)

\* the variables of the other components stay as they start
SpecLibInit == LibInit /\ NoTable /\ NoFs /\ NoNt /\ NoINode /\ NoCalls
SpecLib == SpecLibInit /\ [][LibNext]_vars

\* ---------------------------------------------------------------------------
\* Properties of the refresh of src/src/lib.rs
\* ---------------------------------------------------------------------------
LibFileNames(st) == {st.files[i].filename : i \in DOMAIN st.files}
LibListedNames(st) ==
    {st.entries[k].name : k \in 1..Len(st.entries)} \ {".", ".."}
LibResolvedNames(st) == {n \in Names : lib_lookup(st, ROOT_INO, n).ok}

\* C5: once an opendir has applied a modified snapshot, readdir of the root
\* lists exactly the snapshot's file names and lookup resolves exactly them.
C5_FileSetFollowsSnapshot ==
    (last.op = "opendir" /\ last.fetch = "modified") =>
        /\ LibListedNames(state) = DOMAIN state.gist
        /\ LibResolvedNames(state) = DOMAIN state.gist

\* C6: an opendir whose fetch fails changes nothing: files, attributes,
\* contents, entity tag and the expiry time are as before.
C6_FailedFetchChangesNothing ==
    [][(\E i \in DirInos : LibOpendirError(i)) => state' = state]_vars

\* C17: a request for an inode number that is not in the table is answered
\* ENOENT; an opendir for it fetches nothing.
C17_MissingInodeIsNotFound ==
    (/\ last.op \in {"opendir", "readdir"}
     /\ last.ino # ROOT_INO
     /\ last.ino \notin DOMAIN state.files) =>
        /\ last.op = "opendir" => (last.reply = "ENOENT" /\ last.fetch = "none")
        /\ last.op = "readdir" => last.reply = [ok |-> FALSE, err |-> "ENOENT"]

\* a step of GistFs::do_opendir: the last request is an opendir, and neither
\* the clock nor the server has moved
OpendirStep == last'.op = "opendir" /\ now' = now /\ remote' = remote

\* C21: an opendir that finds the cache not expired fetches nothing, changes
\* nothing of the state (files, attributes, contents, entity tag, expiry) and
\* replies success.
C21_FreshOpendirIsNoOp ==
    [][(OpendirStep /\ now <= state.expired) =>
          /\ state' = state
          /\ remote' = remote
          /\ last'.fetch = "none"
          /\ last'.reply = "ok"]_vars

\* an opendir has been answered from the cache although the gist on the
\* server has a newer entity tag
C21_Witness ==
    /\ last.op = "opendir"
    /\ last.fetch = "none"
    /\ last.reply = "ok"
    /\ remote.etag # state.etag

\* C22: an opendir on an expired cache whose fetch is answered 304 changes
\* only the expiry time, which becomes now plus the cache period.
C22_NotModifiedMovesExpiryOnly ==
    [][(OpendirStep /\ now > state.expired /\ last'.fetch = "not_modified") =>
          state' = [state EXCEPT !.expired = now + CachePeriod]]_vars

\* a 304 has been answered for a gist that was fetched anew before
C22_Witness ==
    /\ last.op = "opendir"
    /\ last.fetch = "not_modified"
    /\ state.etag > 1
    /\ state.expired = now + CachePeriod

\* C27: after an opendir whose fetch failed, the opendir that arrives once
\* the expiry time has passed fetches again, with the entity tag the failed
\* fetch carried, and can succeed.
C27_FailureAllowsRetry ==
    [][(/\ OpendirStep
        /\ last.op = "opendir"
        /\ last.fetch = "error"
        /\ now > state.expired) =>
          /\ last'.fetch \in {"error", "modified", "not_modified"}
          /\ last'.etag = last.etag]_vars

\* the opendir after a failed one has fetched and applied a new snapshot
C27_Witness ==
    /\ last.op = "opendir"
    /\ last.prev = "error"
    /\ last.fetch = "modified"
    /\ last.reply = "ok"
    /\ state.etag = remote.etag

\* C28: when the applied snapshot marks a file as truncated, the file gets
\* the snapshot's size and time, and its content is recorded as not loaded:
\* neither emptied nor kept as the old bytes.
C28_TruncatedIsNotLoaded ==
    (last.op = "opendir" /\ last.fetch = "modified") =>
        \A i \in DOMAIN state.files :
            (/\ state.files[i].filename \in DOMAIN state.gist
             /\ state.gist[state.files[i].filename].truncated) =>
                /\ state.files[i].size = state.gist[state.files[i].filename].size
                /\ state.files[i].mtime = state.etag
                /\ state.files[i].content = NoContent

\* ---------------------------------------------------------------------------
\* src/src/lib.rs: the handlers of the file requests
\* ---------------------------------------------------------------------------
NoArg == [some |-> FALSE]
Arg(v) == [some |-> TRUE, v |-> v]
Ok == [ok |-> TRUE]
Err(code) == [ok |-> FALSE, err |-> code]
Panic == [ok |-> FALSE, err |-> "panic"]
Zeros(n) == [i \in 1..n |-> 0]

\* Vec::resize(n, 0): the tail is dropped or zeros are appended
resize(content, n) ==
    IF n <= Len(content) THEN SubSeq(content, 1, n)
    ELSE content \o Zeros(n - Len(content))

\* GistFs::do_getattr
do_getattr(st, ino) ==
    IF ino = ROOT_INO THEN [state |-> st, reply |-> [ok |-> TRUE, size |-> 0]]
    ELSE IF ino \in DOMAIN st.files
    THEN [state |-> st, reply |-> [ok |-> TRUE, size |-> st.files[ino].size]]
    ELSE [state |-> st, reply |-> Err("ENOENT")]

\* a setattr that has no arm for the root and looks it up among the files
do_setattr_unguarded(st, ino, mtime, size) ==
    IF ino \notin DOMAIN st.files THEN [state |-> st, reply |-> Err("ENOENT")]
    ELSE LET f == st.files[ino]
             f1 == IF mtime.some THEN [f EXCEPT !.mtime = mtime.v] ELSE f
             f2 == IF size.some
                   THEN [f1 EXCEPT !.size = size.v,
                                   !.content = IF f1.content.some
                                               THEN Some(resize(f1.content.bytes, size.v))
                                               ELSE f1.content]
                   ELSE f1
         IN  [state |-> [st EXCEPT !.files[ino] = f2],
              reply |-> [ok |-> TRUE, size |-> f2.size]]

\* GistFs::do_setattr: utimens, then truncate
do_setattr(st, ino, mtime, size) ==
    IF ino = ROOT_INO THEN [state |-> st, reply |-> Err("EPERM")]
    ELSE IF ino \notin DOMAIN st.files THEN [state |-> st, reply |-> Err("ENOENT")]
    ELSE LET f == st.files[ino]
             f1 == IF mtime.some THEN [f EXCEPT !.mtime = mtime.v] ELSE f
             f2 == IF size.some
                   THEN [f1 EXCEPT !.size = size.v,
                                   !.content = IF f1.content.some
                                               THEN Some(resize(f1.content.bytes, size.v))
                                               ELSE f1.content]
                   ELSE f1
         IN  [state |-> [st EXCEPT !.files[ino] = f2],
              reply |-> [ok |-> TRUE, size |-> f2.size]]

\* GistFs::do_open: a file without content gets an empty one
do_open(st, ino) ==
    IF ino = ROOT_INO THEN [state |-> st, reply |-> Err("EISDIR")]
    ELSE IF ino \notin DOMAIN st.files THEN [state |-> st, reply |-> Err("ENOENT")]
    ELSE [state |-> IF st.files[ino].content.some THEN st
                    ELSE [st EXCEPT !.files[ino].content = Some(<<>>)],
          reply |-> Ok]

\* a read that replies the whole rest of the content, whatever size was asked
do_read_unbounded(st, ino, offset, size) ==
    IF ino = ROOT_INO THEN [state |-> st, reply |-> Err("EISDIR")]
    ELSE IF ino \notin DOMAIN st.files THEN [state |-> st, reply |-> Err("ENOENT")]
    ELSE IF ~st.files[ino].content.some THEN [state |-> st, reply |-> Panic]
    ELSE LET content == st.files[ino].content.bytes
         IN  IF offset > Len(content)
             THEN [state |-> st, reply |-> [ok |-> TRUE, data |-> <<>>]]
             ELSE [state |-> st,
                   reply |-> [ok |-> TRUE,
                              data |-> SubSeq(content, offset + 1, Len(content))]]

\* GistFs::do_read: `expect` panics on a file without content
do_read(st, ino, offset, size) ==
    IF ino = ROOT_INO THEN [state |-> st, reply |-> Err("EISDIR")]
    ELSE IF ino \notin DOMAIN st.files THEN [state |-> st, reply |-> Err("ENOENT")]
    ELSE IF ~st.files[ino].content.some THEN [state |-> st, reply |-> Panic]
    ELSE LET content == st.files[ino].content.bytes
         IN  IF offset > Len(content)
             THEN [state |-> st, reply |-> [ok |-> TRUE, data |-> <<>>]]
             ELSE LET rest == SubSeq(content, offset + 1, Len(content))
                      len == IF Len(rest) < size THEN Len(rest) ELSE size
                  IN  [state |-> st,
                       reply |-> [ok |-> TRUE, data |-> SubSeq(rest, 1, len)]]

\* GistFs::do_write, op.size() being the length of the data: the content is
\* resized to offset + size, then `content[offset..size].copy_from_slice(data)`
\* panics when offset > size (slice bounds) and when size - offset is not the
\* length of the data (length mismatch), that is for every offset but 0
do_write(st, ino, offset, data) ==
    IF ino = ROOT_INO THEN [state |-> st, reply |-> Err("EISDIR")]
    ELSE IF ino \notin DOMAIN st.files THEN [state |-> st, reply |-> Err("ENOENT")]
    ELSE IF ~st.files[ino].content.some THEN [state |-> st, reply |-> Panic]
    ELSE LET size == Len(data)
             resized == resize(st.files[ino].content.bytes, offset + size)
             st1 == [st EXCEPT !.files[ino].content = Some(resized)]
         IN  IF offset > size \/ size - offset # Len(data)
             THEN [state |-> st1, reply |-> Panic]
             ELSE LET written == [i \in 1..Len(resized) |->
                                     IF i > offset /\ i <= size
                                     THEN data[i - offset] ELSE resized[i]]
                  IN  [state |-> [st EXCEPT !.files[ino].content = Some(written),
                                            !.files[ino].size = Len(written)],
                       reply |-> [ok |-> TRUE, size |-> size]]

\* GistFs::do_flush
do_flush(st, ino) ==
    IF ino = ROOT_INO THEN [state |-> st, reply |-> Err("EISDIR")]
    ELSE IF ino \notin DOMAIN st.files THEN [state |-> st, reply |-> Err("ENOENT")]
    ELSE [state |-> st, reply |-> Ok]

FileInos == 1..3
WriteData == {<<7>>, <<8, 9>>}
Offsets == 0..2
ReadSizes == {1, 4}

LibGetattr(ino) ==
    /\ state' = do_getattr(state, ino).state
    /\ last' = [op |-> "getattr", ino |-> ino, reply |-> do_getattr(state, ino).reply]
    /\ UNCHANGED <<now, remote, notLib>>

LibSetattr(ino, mtime, size) ==
    /\ state' = do_setattr(state, ino, mtime, size).state
    /\ last' = [op |-> "setattr", ino |-> ino,
                reply |-> do_setattr(state, ino, mtime, size).reply]
    /\ UNCHANGED <<now, remote, notLib>>

LibOpen(ino) ==
    /\ state' = do_open(state, ino).state
    /\ last' = [op |-> "open", ino |-> ino, reply |-> do_open(state, ino).reply]
    /\ UNCHANGED <<now, remote, notLib>>

LibRead(ino, offset, size) ==
    /\ state' = do_read(state, ino, offset, size).state
    /\ last' = [op |-> "read", ino |-> ino, offset |-> offset, size |-> size,
                reply |-> do_read(state, ino, offset, size).reply]
    /\ UNCHANGED <<now, remote, notLib>>

LibWrite(ino, offset, data) ==
    /\ state' = do_write(state, ino, offset, data).state
    /\ last' = [op |-> "write", ino |-> ino, offset |-> offset, data |-> data,
                reply |-> do_write(state, ino, offset, data).reply]
    /\ UNCHANGED <<now, remote, notLib>>

LibFlush(ino) ==
    /\ state' = do_flush(state, ino).state
    /\ last' = [op |-> "flush", ino |-> ino, reply |-> do_flush(state, ino).reply]
    /\ UNCHANGED <<now, remote, notLib>>

LibFileNext ==
    \/ \E i \in FileInos : LibGetattr(i)
    \/ \E i \in FileInos, m \in {NoArg, Arg(0)}, sz \in {NoArg, Arg(1), Arg(3)} :
          LibSetattr(i, m, sz)
    \/ \E i \in FileInos : LibOpen(i)
    \/ \E i \in FileInos, o \in Offsets, sz \in ReadSizes : LibRead(i, o, sz)
    \/ \E i \in FileInos, o \in Offsets, d \in WriteData : LibWrite(i, o, d)
    \/ \E i \in FileInos : LibFlush(i)

\* GistFs::new on a gist that holds the one file a
SpecLibFileInit ==
    /\ LibInitFrom({g \in LibSnapshots : DOMAIN g = {"a"}})
    /\ NoTable /\ NoFs /\ NoNt /\ NoINode /\ NoCalls
SpecLibFile == SpecLibFileInit /\ [][LibFileNext]_vars

\* ---------------------------------------------------------------------------
\* Properties of the file requests of src/src/lib.rs
\* ---------------------------------------------------------------------------
HasBuffer(st, ino) == ino \in DOMAIN st.files /\ st.files[ino].content.some
Buffer(st, ino) == st.files[ino].content.bytes

\* the buffer a write of `data` at `offset` leaves: grown with zeros up to
\* the end of the data if need be, the data at [offset, offset + len)
ExpectedWrite(old, offset, data) ==
    LET end == offset + Len(data)
        n == IF end > Len(old) THEN end ELSE Len(old)
    IN  [k \in 1..n |-> IF k > offset /\ k <= end THEN data[k - offset]
                        ELSE IF k <= Len(old) THEN old[k] ELSE 0]

\* the bytes a read of at most `max_len` bytes at `offset` returns
ExpectedRead(buf, offset, max_len) ==
    IF offset >= Len(buf) THEN <<>>
    ELSE LET n == IF max_len < Len(buf) - offset THEN max_len ELSE Len(buf) - offset
         IN  [k \in 1..n |-> buf[offset + k]]

\* C12: a write to a file stores the data at [offset, offset + len), zero-fills
\* the gap when the offset is past the old end, sets the size attribute to the
\* length of the buffer and replies the length of the data.
C12_WriteStoresAtOffset ==
    [][\A i \in FileInos, o \in Offsets, d \in WriteData :
          (LibWrite(i, o, d) /\ HasBuffer(state, i)) =>
              LET new == ExpectedWrite(Buffer(state, i), o, d)
              IN  /\ state'.files[i].content = Some(new)
                  /\ state'.files[i].size = Len(new)
                  /\ last'.reply = [ok |-> TRUE, size |-> Len(d)]]_vars

\* C13: a write whose range lies within the buffer changes neither the length
\* of the buffer nor the size attribute, and no byte outside the range.
C13_WriteWithinKeepsLength ==
    [][\A i \in FileInos, o \in Offsets, d \in WriteData :
          (/\ LibWrite(i, o, d)
           /\ HasBuffer(state, i)
           /\ o + Len(d) <= Len(Buffer(state, i))) =>
              /\ Len(Buffer(state', i)) = Len(Buffer(state, i))
              /\ state'.files[i].size = state.files[i].size
              /\ \A k \in 1..Len(Buffer(state, i)) :
                    (k <= o \/ k > o + Len(d)) =>
                        Buffer(state', i)[k] = Buffer(state, i)[k]]_vars

\* C14: a read of a file returns exactly the bytes of the buffer from the
\* offset on, at most as many as asked for, and an empty result, not an
\* error, when the offset is at or past the end of the buffer.
C14_ReadReturnsTheRange ==
    /\ \A i \in DOMAIN state.files :
          HasBuffer(state, i) =>
              \A o \in 0..(Len(Buffer(state, i)) + 1), sz \in 0..(Len(Buffer(state, i)) + 1) :
                  /\ do_read(state, i, o, sz).reply
                        = [ok |-> TRUE, data |-> ExpectedRead(Buffer(state, i), o, sz)]
                  /\ file_read(Buffer(state, i), o, sz)
                        = ExpectedRead(Buffer(state, i), o, sz)
    /\ (last.op = "read" /\ HasBuffer(state, last.ino)) =>
          last.reply = [ok |-> TRUE,
                        data |-> ExpectedRead(Buffer(state, last.ino),
                                              last.offset, last.size)]

\* a read at the very end of a buffer that is not empty has been answered
C14_Witness ==
    /\ last.op = "read"
    /\ HasBuffer(state, last.ino)
    /\ Len(Buffer(state, last.ino)) > 0
    /\ last.offset = Len(Buffer(state, last.ino))
    /\ last.reply = [ok |-> TRUE, data |-> <<>>]

\* C25: the size attribute of every file equals the length of its content
\* buffer, whatever writes, truncations, opens and refreshes came before, a
\* refresh from a snapshot that marks the file as truncated included.
C25_SizeMirrorsBuffer ==
    \A i \in DOMAIN state.files :
        HasBuffer(state, i) => state.files[i].size = Len(Buffer(state, i))

\* GistFs::fetch of src/src/lib.rs: once a snapshot has been applied, every
\* file it names and does not mark as truncated has the snapshot's size and
\* is read as the snapshot's content
LibFetchUpdatesInPlace ==
    (last.op = "opendir" /\ last.fetch = "modified") =>
        \A i \in DOMAIN state.files :
            LET name == state.files[i].filename
            IN  (name \in DOMAIN state.gist /\ ~state.gist[name].truncated) =>
                    /\ state.files[i].size = state.gist[name].size
                    /\ do_read(state, i, 0, 10).reply
                          = [ok |-> TRUE, data |-> state.gist[name].content]

\* C15: every request is answered with a reply or an error code; no handler
\* panics, a read or write of a file without content included.
C15_NoHandlerPanics ==
    last.op \in {"getattr", "setattr", "open", "read", "write", "flush"} =>
        last.reply # Panic

\* C16: setattr of the root is answered EPERM, open, read and write of the
\* root EISDIR, and none of them changes the files, their contents or
\* attributes, or the state of the cache.
C16_RootPolicy ==
    [][/\ \A m \in {NoArg, Arg(0)}, sz \in {NoArg, Arg(1), Arg(3)} :
            LibSetattr(ROOT_INO, m, sz) =>
                last'.reply = Err("EPERM") /\ UNCHANGED <<state, now, remote>>
       /\ LibOpen(ROOT_INO) =>
            last'.reply = Err("EISDIR") /\ UNCHANGED <<state, now, remote>>
       /\ \A o \in Offsets, sz \in ReadSizes :
            LibRead(ROOT_INO, o, sz) =>
                last'.reply = Err("EISDIR") /\ UNCHANGED <<state, now, remote>>
       /\ \A o \in Offsets, d \in WriteData :
            LibWrite(ROOT_INO, o, d) =>
                last'.reply = Err("EISDIR") /\ UNCHANGED <<state, now, remote>>]_vars

\* a setattr of the root has been refused after a file was written
C16_Witness ==
    /\ last.op = "setattr"
    /\ last.ino = ROOT_INO
    /\ last.reply = Err("EPERM")
    /\ \E i \in DOMAIN state.files :
          HasBuffer(state, i) /\ Buffer(state, i) \in WriteData

\* ---------------------------------------------------------------------------
\* src/src/lib.rs: reads and writes of two tasks, split at `state.lock().await`
\* ---------------------------------------------------------------------------
LibTasks == {1, 2}
NoCall == [pc |-> "idle"]

\* what the actions of the two requesting tasks leave alone
notLibCall == <<nodes, next_ino, removed, minted, fsVars, ntVars, inodeVars, now, remote>>

\* the guard of GistFs.state lives until the handler returns, the awaited
\* reply included
StateLocked == \E u \in LibTasks : calls[u].pc = "reply"

\* what do_read or do_write does to the state once it holds the guard
handle(st, c) ==
    IF c.op = "read" THEN do_read(st, c.ino, c.offset, c.size)
    ELSE do_write(st, c.ino, c.offset, c.data)

\* GistFs::new on a gist of two files, no request in flight
LibCallInit ==
    /\ LibInitFrom({g \in LibSnapshots : DOMAIN g = {"a", "b"}})
    /\ calls = [t \in LibTasks |-> NoCall]

\* a Read or Write arrives: the root is answered at once, any other inode
\* makes the handler ask for the guard of the state
LibCallArrives(t, c) ==
    /\ calls[t].pc = "idle"
    /\ IF c.ino = ROOT_INO
       THEN /\ calls' = calls
            /\ last' = [op |-> c.op, ino |-> c.ino, task |-> t, reply |-> Err("EISDIR")]
       ELSE /\ calls' = [calls EXCEPT ![t] = [c EXCEPT !.pc = "wait"]]
            /\ last' = [op |-> "arrive", ino |-> c.ino, task |-> t]
    /\ UNCHANGED <<state, notLibCall>>

\* `self.state.lock().await` returns: the handler reads or writes the file and
\* starts to send the reply; a panic unwinds and drops the guard
LibCallLocks(t) ==
    /\ calls[t].pc = "wait"
    /\ ~StateLocked
    /\ LET r == handle(state, calls[t])
       IN  /\ state' = r.state
           /\ IF r.reply = Panic
              THEN /\ calls' = [calls EXCEPT ![t] = NoCall]
                   /\ last' = [op |-> calls[t].op, ino |-> calls[t].ino, task |-> t,
                               reply |-> Panic]
              ELSE /\ calls' = [calls EXCEPT ![t] =
                                   [pc |-> "reply", op |-> calls[t].op,
                                    ino |-> calls[t].ino, reply |-> r.reply]]
                   /\ last' = [op |-> "lock", ino |-> calls[t].ino, task |-> t]
    /\ UNCHANGED notLibCall

\* the reply has been sent, the handler returns and the guard is dropped
LibCallReplies(t) ==
    /\ calls[t].pc = "reply"
    /\ last' = [op |-> calls[t].op, ino |-> calls[t].ino, task |-> t,
                reply |-> calls[t].reply]
    /\ calls' = [calls EXCEPT ![t] = NoCall]
    /\ UNCHANGED <<state, notLibCall>>

\* the requests the two tasks issue
LibCalls ==
    {[pc |-> "idle", op |-> "read", ino |-> i, offset |-> 0, size |-> 4] : i \in FileInos}
    \cup {[pc |-> "idle", op |-> "write", ino |-> i, offset |-> 0, data |-> <<7>>] :
            i \in FileInos}

LibCallNext ==
    \/ \E t \in LibTasks, c \in LibCalls : LibCallArrives(t, c)
    \/ \E t \in LibTasks : LibCallLocks(t)
    \/ \E t \in LibTasks : LibCallReplies(t)

SpecLibCallInit == LibCallInit /\ NoTable /\ NoFs /\ NoNt /\ NoINode
SpecLibCall == SpecLibCallInit /\ [][LibCallNext]_vars

\* C26: a read or write of one file never waits for a lock that a read or
\* write of another file holds.
C26_FilesDoNotBlockEachOther ==
    \A t \in LibTasks, u \in LibTasks :
        ~(/\ calls[t].pc = "wait"
          /\ calls[u].pc = "reply"
          /\ calls[t].ino \in DOMAIN state.files
          /\ calls[u].ino \in DOMAIN state.files
          /\ calls[t].ino # calls[u].ino)

\* ---------------------------------------------------------------------------
\* src/src/lib.rs: opendirs of several tasks, split at `state.lock().await`
\* and at the await of the remote fetch
\* ---------------------------------------------------------------------------
OpenTasks == {1, 2, 3}

\* pc, and history: the expiry times this task has issued a fetch for, and of
\* its opendir in flight the expiry time when it arrived (saw), the expiry
\* time when it obtained the state (found) and how its fetch ended
IdleOpen == [pc |-> "idle", fetched |-> <<>>, saw |-> 0, found |-> 0, fetch |-> "none"]

\* GistFs::fetch holds the guard of GistFs.state from its first line until it
\* returns, the await of Client::fetch_gist included
FetchLocked == \E u \in OpenTasks : calls[u].pc = "fetching"

\* the snapshots of the gist while opendirs are in flight: one file, edited
OpenSnapshots == {g \in LibSnapshots : DOMAIN g = {"a"} /\ ~g["a"].truncated}

\* GistFs::new on a gist of one file, no opendir in flight
OpenInit ==
    /\ LibInitFrom(OpenSnapshots)
    /\ calls = [t \in OpenTasks |-> IdleOpen]

\* the clock advances; a fetch returns, and the opendirs that waited for it
\* obtain the state, within one cache period
OpenTick ==
    /\ now >= state.expired =>
          \A u \in OpenTasks :
              /\ calls[u].pc # "fetching"
              /\ calls[u].pc = "wait" => calls[u].saw = state.expired
    /\ Tick

\* Operation::Opendir arrives: do_opendir calls fetch, which asks for the guard
OpenArrives(t) ==
    /\ calls[t].pc = "idle"
    /\ calls' = [calls EXCEPT ![t] = [@ EXCEPT !.pc = "wait", !.saw = state.expired]]
    /\ last' = [op |-> "arrive"]
    /\ UNCHANGED <<state, notLibCall>>

\* an opendir that issues its fetch without moving the expiry time
OpenLocksKeepsExpiry(t) ==
    /\ calls[t].pc = "wait"
    /\ ~FetchLocked
    /\ IF now <= state.expired
       THEN /\ calls' = [calls EXCEPT ![t] = [@ EXCEPT !.pc = "reply",
                                                       !.found = state.expired]]
            /\ state' = state
       ELSE /\ calls' = [calls EXCEPT ![t] =
                            [@ EXCEPT !.pc = "fetching", !.found = state.expired,
                                      !.fetched = Append(@, state.expired)]]
            /\ state' = state
    /\ last' = [op |-> "lock"]
    /\ UNCHANGED notLibCall

\* `self.state.lock().await` returns in GistFs::fetch: with the cache still
\* valid fetch returns Ok at once and drops the guard; else it moves the
\* expiry time and calls Client::fetch_gist, keeping the guard
OpenLocks(t) ==
    /\ calls[t].pc = "wait"
    /\ ~FetchLocked
    /\ IF now <= state.expired
       THEN /\ calls' = [calls EXCEPT ![t] = [@ EXCEPT !.pc = "reply",
                                                       !.found = state.expired]]
            /\ state' = state
       ELSE /\ calls' = [calls EXCEPT ![t] =
                            [@ EXCEPT !.pc = "fetching", !.found = state.expired,
                                      !.fetched = Append(@, state.expired)]]
            /\ state' = [state EXCEPT !.expired = now + CachePeriod]
    /\ last' = [op |-> "lock"]
    /\ UNCHANGED notLibCall

\* Client::fetch_gist fails: `?` leaves fetch and drops the guard
OpenFetchFails(t) ==
    /\ calls[t].pc = "fetching"
    /\ calls' = [calls EXCEPT ![t] = [@ EXCEPT !.pc = "reply", !.fetch = "error"]]
    /\ last' = [op |-> "fetch"]
    /\ UNCHANGED <<state, notLibCall>>

\* Client::fetch_gist answers: fetch applies the snapshot, if there is one,
\* returns and drops the guard
OpenFetchReturns(t) ==
    /\ calls[t].pc = "fetching"
    /\ LET r == fetch_gist(state.etag)
       IN  /\ state' = IF r.modified THEN apply_gist(state, r.gist, r.etag) ELSE state
           /\ calls' = [calls EXCEPT ![t] =
                           [@ EXCEPT !.pc = "reply",
                                     !.fetch = IF r.modified THEN "modified"
                                               ELSE "not_modified"]]
    /\ last' = [op |-> "fetch"]
    /\ UNCHANGED notLibCall

\* GistFs::do_opendir replies: EIO when fetch failed, else ReplyOpendir
OpenReplies(t) ==
    /\ calls[t].pc = "reply"
    /\ calls' = [calls EXCEPT ![t] = [IdleOpen EXCEPT !.fetched = calls[t].fetched]]
    /\ last' = [op |-> "opendir", fetch |-> calls[t].fetch,
                reply |-> IF calls[t].fetch = "error" THEN "EIO" ELSE "ok"]
    /\ UNCHANGED <<state, notLibCall>>

OpenNext ==
    \/ OpenTick
    \/ \E g \in OpenSnapshots : RemoteEdit(g)
    \/ \E t \in OpenTasks : OpenArrives(t)
    \/ \E t \in OpenTasks : OpenLocks(t)
    \/ \E t \in OpenTasks : OpenFetchFails(t)
    \/ \E t \in OpenTasks : OpenFetchReturns(t)
    \/ \E t \in OpenTasks : OpenReplies(t)

SpecLibOpenInit == OpenInit /\ NoTable /\ NoFs /\ NoNt /\ NoINode
SpecLibOpen == SpecLibOpenInit /\ [][OpenNext]_vars

\* the fetches issued so far, as pairs of task and position in its history
FetchesIssued ==
    UNION {{<<t, i>> : i \in DOMAIN calls[t].fetched} : t \in OpenTasks}

\* C33: no two fetches are issued for the same expiry time, and an opendir in
\* flight that finds the expiry time moved when it obtains the state issues no
\* fetch.
C33_OneFetchPerExpiry ==
    /\ \A f \in FetchesIssued, g \in FetchesIssued :
          f # g => calls[f[1]].fetched[f[2]] # calls[g[1]].fetched[g[2]]
    /\ \A u \in OpenTasks :
          (calls[u].pc \in {"fetching", "reply"} /\ calls[u].found # calls[u].saw) =>
              (calls[u].pc = "reply" /\ calls[u].fetch = "none")

\* three opendirs arrived with the cache expired; one has fetched, the other
\* two have obtained the state since and go on to reply without a fetch
C33_Witness ==
    \E t \in OpenTasks :
        /\ calls[t].fetch \in {"modified", "not_modified"}
        /\ Len(calls[t].fetched) = 1
        /\ \A u \in OpenTasks \ {t} :
              /\ calls[u].pc = "reply"
              /\ calls[u].saw = calls[t].fetched[1]
              /\ calls[u].found # calls[u].saw
              /\ calls[u].fetch = "none"
              /\ calls[u].fetched = <<>>

\* ---------------------------------------------------------------------------
\* src/node-table/src/lib.rs: the node table as a crate, its calls interleaved
\* ---------------------------------------------------------------------------
Tasks == {1, 2}
IdleTask == [pc |-> "idle"]

\* an Arc<NodeInner> is alive while the table or a call in flight holds it;
\* Weak::upgrade succeeds exactly then
Held(tk) == {tk[t].arc : t \in {u \in DOMAIN tk : tk[u].pc # "idle"}}
Alive(g, tk, o) == o \in Range(g.nodes) \/ o \in Held(tk)

NtRoot ==
    [nodeid |-> 1, kind |-> "Dir", nlookup |-> 1, children |-> <<>>,
     dotdot |-> 1, removed |-> FALSE]

\* NodeTable::new
NtInit ==
    /\ heap = <<NtRoot>>
    /\ global = [nodes |-> (1 :> 1), next_ino |-> 2]
    /\ task = [t \in Tasks |-> IdleTask]
    /\ last = [op |-> "new"]

NtChildIndex(dir, name) ==
    {i \in 1..Len(dir.children) : dir.children[i].name = name}

\* NodeTable::get: the root handle for 1, else whatever `nodes` holds
nt_get(g, ino) ==
    IF ino = 1 THEN [ok |-> TRUE, obj |-> 1]
    ELSE IF ino \in DOMAIN g.nodes THEN [ok |-> TRUE, obj |-> g.nodes[ino]]
    ELSE [ok |-> FALSE]

\* NodeTable::lookup: the parent through `nodes`, the child through the Weak
\* pointer its directory entry keeps
nt_lookup(hp, g, tk, parent, name) ==
    IF parent \notin DOMAIN g.nodes THEN [ok |-> FALSE]
    ELSE LET dir == hp[g.nodes[parent]]
         IN  IF dir.kind # "Dir" \/ NtChildIndex(dir, name) = {} THEN [ok |-> FALSE]
             ELSE LET o == dir.children[CHOOSE i \in NtChildIndex(dir, name) : TRUE].ptr
                  IN  IF Alive(g, tk, o) THEN [ok |-> TRUE, obj |-> o]
                      ELSE [ok |-> FALSE]

\* Node::remove, `nodes.remove(&inner.nodeid)`
nt_remove(g, ino) ==
    [g EXCEPT !.nodes = [i \in DOMAIN g.nodes \ {ino} |-> g.nodes[i]]]

NtGet(ino) ==
    /\ last' = [op |-> "get", ok |-> nt_get(global, ino).ok]
    /\ UNCHANGED <<heap, global, task, notNt>>

NtLookup(parent, name) ==
    LET r == nt_lookup(heap, global, task, parent, name)
    IN  /\ r.ok => heap[r.obj].nlookup < MaxLookup
        /\ heap' = IF r.ok
                   THEN [heap EXCEPT ![r.obj].nlookup = fetch_add(@, 1)]
                   ELSE heap
        /\ last' = [op |-> "lookup", ok |-> r.ok]
        /\ UNCHANGED <<global, task, notNt>>

\* NodeTable::forget, one entry
NtForget(ino, n) ==
    /\ \A o \in DOMAIN heap : heap[o].nlookup <= MaxLookup
    /\ heap' = IF ino \in DOMAIN global.nodes
               THEN [heap EXCEPT ![global.nodes[ino]].nlookup = fetch_sub(@, n)]
               ELSE heap
    /\ last' = [op |-> "forget"]
    /\ UNCHANGED <<global, task, notNt>>

\* Node::remove through a handle to object o
NtRemove(o) ==
    /\ o \in DOMAIN heap
    /\ IF Alive(global, task, o)
       THEN /\ global' = nt_remove(global, heap[o].nodeid)
            /\ heap' = [heap EXCEPT ![o].removed = TRUE]
            /\ last' = [op |-> "remove", panic |-> FALSE]
       ELSE /\ last' = [op |-> "remove", panic |-> TRUE]
            /\ UNCHANGED <<heap, global>>
    /\ UNCHANGED <<task, notNt>>

\* Node::new_child up to `dir.lock().await`: the parent is upgraded and the
\* inode number is read from next_ino
NtNewChildBegin(t, o, name, kind) ==
    /\ task[t].pc = "idle"
    /\ o \in DOMAIN heap
    /\ global.next_ino <= MaxIno
    /\ IF ~Alive(global, task, o)
       THEN /\ last' = [op |-> "new_child", panic |-> TRUE]
            /\ UNCHANGED task
       ELSE IF kind \notin {"Dir", "File"}
       THEN /\ last' = [op |-> "new_child", panic |-> FALSE, ok |-> FALSE, err |-> "ENOTSUP"]
            /\ UNCHANGED task
       ELSE IF heap[o].kind # "Dir"
       THEN /\ last' = [op |-> "new_child", panic |-> FALSE, ok |-> FALSE, err |-> "ENOTDIR"]
            /\ UNCHANGED task
       ELSE /\ task' = [task EXCEPT ![t] =
                          [pc |-> "new_child", arc |-> o, name |-> name,
                           kind |-> kind, ino |-> global.next_ino]]
            /\ last' = [op |-> "new_child_begin"]
    /\ UNCHANGED <<heap, global, notNt>>

\* Node::new_child with the directory locked: the entry is checked, next_ino
\* is incremented, the record is inserted under the number read at the start
NtNewChildFinish(t) ==
    /\ task[t].pc = "new_child"
    /\ LET tk == task[t]
           dir == heap[tk.arc]
           o == Len(heap) + 1
       IN  IF NtChildIndex(dir, tk.name) # {}
           THEN /\ last' = [op |-> "new_child", panic |-> FALSE, ok |-> FALSE, err |-> "EEXIST"]
                /\ UNCHANGED <<heap, global>>
           ELSE /\ heap' = Append(
                     [heap EXCEPT ![tk.arc].children =
                         Append(@, [name |-> tk.name, ptr |-> o, ino |-> tk.ino,
                                    off |-> Len(dir.children) + 3])],
                     [nodeid |-> tk.ino, kind |-> tk.kind, nlookup |-> 0,
                      children |-> <<>>, dotdot |-> dir.nodeid, removed |-> FALSE])
                /\ global' = [nodes |-> (tk.ino :> o) @@ global.nodes,
                              next_ino |-> fetch_add(global.next_ino, 1)]
                /\ last' = [op |-> "new_child", panic |-> FALSE, ok |-> TRUE]
    /\ task' = [task EXCEPT ![t] = IdleTask]
    /\ UNCHANGED notNt

\* Node::readdir up to `dir.lock().await`: the node is upgraded
NtReaddirBegin(t, o) ==
    /\ task[t].pc = "idle"
    /\ o \in DOMAIN heap
    /\ IF ~Alive(global, task, o)
       THEN /\ last' = [op |-> "readdir", reply |-> [ok |-> FALSE, err |-> "ENOENT"]]
            /\ UNCHANGED task
       ELSE IF heap[o].kind # "Dir"
       THEN /\ last' = [op |-> "readdir", reply |-> [ok |-> FALSE, err |-> "ENOTDIR"]]
            /\ UNCHANGED task
       ELSE /\ task' = [task EXCEPT ![t] = [pc |-> "readdir", arc |-> o]]
            /\ last' = [op |-> "readdir_begin"]
    /\ UNCHANGED <<heap, global, notNt>>

\* Node::readdir with the directory locked: DirNode::reply_readdir
NtReaddirFinish(t, offset, bufsize) ==
    /\ task[t].pc = "readdir"
    /\ last' = [op |-> "readdir",
                reply |-> [ok |-> TRUE,
                           entries |-> dir_reply_readdir(heap[task[t].arc].nodeid,
                                                         heap[task[t].arc],
                                                         offset, bufsize)]]
    /\ task' = [task EXCEPT ![t] = IdleTask]
    /\ UNCHANGED <<heap, global, notNt>>

\* the handles the callers use: the root and the first two nodes created
NtHandles == 1..3

NtNext ==
    \/ \E i \in Inos : NtGet(i)
    \/ \E n \in TableNames : NtLookup(1, n)
    \/ NtForget(2, 1)
    \/ \E o \in NtHandles \ {1} : NtRemove(o)
    \/ \E t \in Tasks, o \in NtHandles, n \in TableNames, k \in Kinds :
          NtNewChildBegin(t, o, n, k)
    \/ \E t \in Tasks : NtNewChildFinish(t)
    \/ \E t \in Tasks, o \in NtHandles : NtReaddirBegin(t, o)
    \/ \E t \in Tasks : NtReaddirFinish(t, 0, 1024)

\* the variables of the other components stay as they start
SpecNodeTableInit == NtInit /\ NoTable /\ NoFs /\ NoLib /\ NoINode /\ NoCalls
SpecNodeTable == SpecNodeTableInit /\ [][NtNext]_vars

\* ---------------------------------------------------------------------------
\* Properties of the node-table crate
\* ---------------------------------------------------------------------------
NtRemoved == {o \in DOMAIN heap : heap[o].removed /\ heap[o].nodeid # 1}
\* the directory entries that point to object o
NtEntriesTo(o) ==
    {e \in {<<p, i>> : p \in DOMAIN heap, i \in 1..Len(heap)} :
        /\ e[2] <= Len(heap[e[1]].children)
        /\ heap[e[1]].children[e[2]].ptr = o}

\* C2: once Node::remove has dropped a non-root inode, NodeTable::get of its
\* number and NodeTable::lookup of the name that pointed to it return None,
\* whatever its lookup count was and whatever has been called since.
C2_RemovedIsNotFound ==
    \A o \in NtRemoved :
        /\ ~nt_get(global, heap[o].nodeid).ok
        /\ \A e \in NtEntriesTo(o) :
              ~nt_lookup(heap, global, task, heap[e[1]].nodeid,
                         heap[e[1]].children[e[2]].name).ok

\* C10: no two inodes new_child has created carry the same number, and so no
\* insertion into `nodes` replaces a record.
C10_ChildInosAreUnique ==
    \A o1, o2 \in DOMAIN heap : o1 # o2 => heap[o1].nodeid # heap[o2].nodeid

\* ---------------------------------------------------------------------------
\* src/node-table/src/lib.rs: the calls split where they take a Mutex
\* ---------------------------------------------------------------------------
\* the Mutex of NodeTableInner.nodes is held by a forget in progress
NodesLocked == \E u \in Tasks : task[u].pc = "forget"

\* the Mutex of the DirNode of object o is held by a new_child that has found
\* the name vacant and is about to insert the node into `nodes`
DirLocked(o) == \E u \in Tasks : task[u].pc = "nodes_wait" /\ task[u].arc = o

\* Node::new_child, `dir.lock().await` returns: an occupied entry ends the
\* call; for a vacant one next_ino is incremented and the call goes on to
\* `global.nodes.lock().await` with the directory still locked
LockNewChildDir(t) ==
    /\ task[t].pc = "new_child"
    /\ ~DirLocked(task[t].arc)
    /\ IF NtChildIndex(heap[task[t].arc], task[t].name) # {}
       THEN /\ task' = [task EXCEPT ![t] = IdleTask]
            /\ global' = global
            /\ last' = [op |-> "new_child", panic |-> FALSE, ok |-> FALSE, err |-> "EEXIST"]
       ELSE /\ task' = [task EXCEPT ![t].pc = "nodes_wait"]
            /\ global' = [global EXCEPT !.next_ino = fetch_add(@, 1)]
            /\ last' = [op |-> "new_child_vacant"]
    /\ UNCHANGED <<heap, notNt>>

\* Node::new_child, `global.nodes.lock().await` returns: the node is inserted
\* into `nodes` and into the directory, both guards are dropped
LockNewChildInsert(t) ==
    /\ task[t].pc = "nodes_wait"
    /\ ~NodesLocked
    /\ LET tk == task[t]
           dir == heap[tk.arc]
           o == Len(heap) + 1
       IN  /\ heap' = Append(
                 [heap EXCEPT ![tk.arc].children =
                     Append(@, [name |-> tk.name, ptr |-> o, ino |-> tk.ino,
                                off |-> Len(dir.children) + 3])],
                 [nodeid |-> tk.ino, kind |-> tk.kind, nlookup |-> 0,
                  children |-> <<>>, dotdot |-> dir.nodeid, removed |-> FALSE])
           /\ global' = [global EXCEPT !.nodes = (tk.ino :> o) @@ @]
    /\ task' = [task EXCEPT ![t] = IdleTask]
    /\ last' = [op |-> "new_child", panic |-> FALSE, ok |-> TRUE]
    /\ UNCHANGED notNt

\* NodeTable::forget, `self.global.nodes.lock().await` returns; the call
\* holds no Arc (arc 0)
LockForgetBegin(t, forgets) ==
    /\ task[t].pc = "idle"
    /\ ~NodesLocked
    /\ task' = [task EXCEPT ![t] = [pc |-> "forget", arc |-> 0, forgets |-> forgets]]
    /\ last' = [op |-> "forget_begin"]
    /\ UNCHANGED <<heap, global, notNt>>

\* NodeTable::forget, the loop over the entries, then the guard is dropped
RECURSIVE nt_forget_all(_, _, _)
nt_forget_all(hp, g, forgets) ==
    IF forgets = <<>> THEN hp
    ELSE LET f == Head(forgets)
         IN  nt_forget_all(
                 IF f.ino \in DOMAIN g.nodes
                 THEN [hp EXCEPT ![g.nodes[f.ino]].nlookup = fetch_sub(@, f.nlookup)]
                 ELSE hp,
                 g, Tail(forgets))

LockForgetEnd(t) ==
    /\ task[t].pc = "forget"
    /\ heap' = nt_forget_all(heap, global, task[t].forgets)
    /\ task' = [task EXCEPT ![t] = IdleTask]
    /\ last' = [op |-> "forget"]
    /\ UNCHANGED <<global, notNt>>

\* NodeTable::lookup: the parent is cloned out of `nodes` (the guard is a
\* temporary of that statement), then the directory is locked and searched
LockLookup(t, parent, name) ==
    /\ task[t].pc = "idle"
    /\ ~NodesLocked
    /\ parent \in DOMAIN global.nodes => ~DirLocked(global.nodes[parent])
    /\ LET r == nt_lookup(heap, global, task, parent, name)
       IN  /\ r.ok => heap[r.obj].nlookup < MaxLookup
           /\ heap' = IF r.ok
                      THEN [heap EXCEPT ![r.obj].nlookup = fetch_add(@, 1)]
                      ELSE heap
           /\ last' = [op |-> "lookup", ok |-> r.ok]
    /\ UNCHANGED <<global, task, notNt>>

NtLockNext ==
    \/ \E t \in Tasks, o \in NtHandles, n \in TableNames, k \in Kinds :
          NtNewChildBegin(t, o, n, k)
    \/ \E t \in Tasks : LockNewChildDir(t)
    \/ \E t \in Tasks : LockNewChildInsert(t)
    \/ \E t \in Tasks : LockForgetBegin(t, <<[ino |-> 2, nlookup |-> 1]>>)
    \/ \E t \in Tasks : LockForgetEnd(t)
    \/ \E t \in Tasks, n \in TableNames : LockLookup(t, 1, n)

SpecNtLockInit == NtInit /\ NoTable /\ NoFs /\ NoLib /\ NoINode /\ NoCalls
SpecNtLock == SpecNtLockInit /\ [][NtLockNext]_vars

\* C29: no task waits for the lock of the table (`nodes`) while it holds the
\* lock of an inode (a directory's children).
C29_TableLockIsTakenFirst ==
    \A t \in Tasks :
        ~(/\ task[t].pc = "nodes_wait"
          /\ DirLocked(task[t].arc)
          /\ NodesLocked)

\* ---------------------------------------------------------------------------
\* src/src/inode.rs: INodeTable
\* ---------------------------------------------------------------------------
\* INode::new: a directory for S_IFDIR, a file for every other mode
INode(mode) ==
    [mode |-> mode, kind |-> IF mode = "Dir" THEN "Dir" ELSE "File",
     children |-> <<>>]

\* INodeTable::new
INodeInit ==
    /\ inodes = (ROOT_INO :> INode("Dir"))
    /\ next_id = ROOT_INO + 1
    /\ last = [op |-> "new"]

IChildIndex(inode, name) ==
    {i \in 1..Len(inode.children) : inode.children[i].name = name}

\* INodeTable::get
inode_get(tbl, ino) == ino \in DOMAIN tbl

\* INodeTable::lookup
inode_lookup(tbl, parent, name) ==
    IF parent \notin DOMAIN tbl THEN None
    ELSE IF tbl[parent].kind # "Dir" THEN None
    ELSE IF IChildIndex(tbl[parent], name) = {} THEN None
    ELSE LET child == tbl[parent].children[
                          CHOOSE i \in IChildIndex(tbl[parent], name) : TRUE].ino
         IN  IF inode_get(tbl, child) THEN [ok |-> TRUE, nodeid |-> child] ELSE None

\* INodeTable::insert: the table after the call, the counter, and the reply
inode_insert(tbl, nx, parent, name, mode) ==
    IF parent \notin DOMAIN tbl
    THEN [inodes |-> tbl, next_id |-> nx, ok |-> FALSE, err |-> "ENOENT"]
    ELSE IF tbl[parent].kind # "Dir"
    THEN [inodes |-> tbl, next_id |-> nx, ok |-> FALSE, err |-> "ENOTDIR"]
    ELSE IF IChildIndex(tbl[parent], name) # {}
    THEN [inodes |-> tbl, next_id |-> nx, ok |-> FALSE, err |-> "EEXIST"]
    ELSE LET withChild == [tbl EXCEPT ![parent].children =
                              Append(@, [name |-> name, ino |-> nx])]
         IN  [inodes |-> [i \in (DOMAIN tbl) \cup {nx} |->
                             IF i = nx THEN INode(mode) ELSE withChild[i]],
              next_id |-> nx + 1, ok |-> TRUE, ino |-> nx]

\* INodeTable::read_dir, the loop: the children from index `i` on, each with
\* the cookie i + 1, until one does not fit
RECURSIVE read_dir_from(_, _, _, _, _)
read_dir_from(tbl, children, i, total_len, bufsize) ==
    IF i >= Len(children) THEN <<>>
    ELSE LET c == children[i + 1]
         IN  IF c.ino \notin DOMAIN tbl
             THEN read_dir_from(tbl, children, i + 1, total_len, bufsize)
             ELSE IF total_len + EntryLen(c.name) > bufsize THEN <<>>
             ELSE <<[name |-> c.name, ino |-> c.ino, off |-> i + 1]>>
                     \o read_dir_from(tbl, children, i + 1,
                                      total_len + EntryLen(c.name), bufsize)

\* INodeTable::read_dir
read_dir(tbl, ino, offset, bufsize) ==
    IF ino \notin DOMAIN tbl THEN [ok |-> FALSE, err |-> "ENOENT"]
    ELSE IF tbl[ino].kind # "Dir" THEN [ok |-> FALSE, err |-> "ENOTDIR"]
    ELSE [ok |-> TRUE,
          entries |-> read_dir_from(tbl, tbl[ino].children, offset, 0, bufsize)]

IInsert(parent, name, mode) ==
    /\ next_id <= MaxIno
    /\ LET r == inode_insert(inodes, next_id, parent, name, mode)
       IN  /\ inodes' = r.inodes
           /\ next_id' = r.next_id
           /\ last' = [op |-> "insert", ok |-> r.ok,
                       ret |-> IF r.ok THEN r.ino ELSE r.err]
    /\ UNCHANGED notINode

ILookup(parent, name) ==
    /\ last' = [op |-> "lookup", parent |-> parent, name |-> name,
                reply |-> inode_lookup(inodes, parent, name)]
    /\ UNCHANGED <<inodes, next_id, notINode>>

IGet(ino) ==
    /\ last' = [op |-> "get", ino |-> ino, ok |-> inode_get(inodes, ino)]
    /\ UNCHANGED <<inodes, next_id, notINode>>

\* INodeTable::forget does nothing
IForget(ino) ==
    /\ last' = [op |-> "forget", ino |-> ino]
    /\ UNCHANGED <<inodes, next_id, notINode>>

IReadDir(ino, offset, bufsize) ==
    /\ last' = [op |-> "read_dir", ino |-> ino, offset |-> offset,
                bufsize |-> bufsize,
                reply |-> read_dir(inodes, ino, offset, bufsize)]
    /\ UNCHANGED <<inodes, next_id, notINode>>

INodeNext ==
    \/ \E p \in Inos, n \in TableNames, m \in Kinds : IInsert(p, n, m)
    \/ \E p \in Inos, n \in TableNames : ILookup(p, n)
    \/ \E i \in Inos : IGet(i)
    \/ \E i \in Inos : IForget(i)
    \/ \E i \in Inos, o \in 0..2, b \in PageSizes : IReadDir(i, o, b)

\* the variables of the other components stay as they start
SpecINodeInit == INodeInit /\ NoTable /\ NoFs /\ NoLib /\ NoNt /\ NoCalls
SpecINode == SpecINodeInit /\ [][INodeNext]_vars

\* ---------------------------------------------------------------------------
\* Properties of src/src/inode.rs
\* ---------------------------------------------------------------------------
\* the pages a reader of INodeTable::read_dir gets who starts at cookie 0 and
\* goes on from the cookie of the last entry of each page
RECURSIVE inode_paginate(_, _, _, _, _)
inode_paginate(tbl, ino, cookie, bufsize, fuel) ==
    LET page == read_dir(tbl, ino, cookie, bufsize).entries
    IN  IF page = <<>> \/ fuel = 0 THEN <<>>
        ELSE page \o inode_paginate(tbl, ino, page[Len(page)].off, bufsize, fuel - 1)

\* C11: reading a directory page after page, from cookie 0 and then from the
\* cookie of the last entry returned until a page is empty, yields "." and
\* ".." and every child, each once and in cookie order, for every buffer size
\* that holds the largest entry.
C11_PaginationIsComplete ==
    \A ino \in DOMAIN inodes : \A b \in PageSizes :
        (/\ inodes[ino].kind = "Dir"
         /\ FitsAll(inodes[ino].children, b)
         /\ EntryLen("..") <= b) =>
            LET pages == inode_paginate(inodes, ino, 0, b,
                                        Len(inodes[ino].children) + 3)
                names == [i \in 1..Len(pages) |-> pages[i].name]
            IN  /\ Len(pages) = Len(inodes[ino].children) + 2
                /\ Range(names) = {".", ".."}
                       \cup {inodes[ino].children[i].name :
                                i \in 1..Len(inodes[ino].children)}
                /\ \A i \in 1..(Len(pages) - 1) : pages[i].off < pages[i + 1].off

\* C18: the allocation of a child fails with ENOENT for an absent parent,
\* ENOTDIR for a parent that is a file, EEXIST for a name that is taken and
\* ENOTSUP for a kind that is neither directory nor regular file, and a failed
\* allocation leaves the inodes and the entries of every directory unchanged.
C18_AllocateChildErrors ==
    [][\A p \in Inos, n \in TableNames, m \in Kinds :
          IInsert(p, n, m) =>
              LET errs == AllocErrors(p \notin DOMAIN inodes,
                                      p \in DOMAIN inodes /\ inodes[p].kind = "File",
                                      p \in DOMAIN inodes /\ inodes[p].kind = "Dir"
                                          /\ IChildIndex(inodes[p], n) # {},
                                      m \notin {"Dir", "File"})
              IN  IF errs = {} THEN last'.ok
                  ELSE ~last'.ok /\ last'.ret \in errs /\ inodes' = inodes]_vars

\* ---------------------------------------------------------------------------
\* The locks of all handlers: every `lock().await`, every drop of a guard and
\* every await under a guard, in the order the handler's code has them
\* ---------------------------------------------------------------------------
LockTasks == {1, 2, 3}

\* `m.lock().await`; the guard is dropped; an await while guards are held
Acq(lock) == [op |-> "acq", lock |-> lock]
Rel(lock) == [op |-> "rel", lock |-> lock]
Await(what) == [op |-> "await", lock |-> what]

\* the file names with a GistFileNode, each with its own content Mutex
LockedFiles == {"a"}
ContentOf(f) == "content_" \o f

\* src/src/node.rs, NodeTable::get_node, forget, remove_node and get_inner:
\* the guard of NodeTableInner.nodes lives until the function returns
get_node_locks == <<Acq("nodes"), Rel("nodes")>>

\* src/src/node.rs, NodeTable::lookup and new_node: the guard of nodes is a
\* local, the guard of the parent's Directory is taken inside the match arm
\* and dropped at its end
lookup_locks == <<Acq("nodes"), Acq("dir"), Rel("dir"), Rel("nodes")>>
new_node_locks == <<Acq("nodes"), Acq("dir"), Rel("dir"), Rel("nodes")>>

\* src/src/node.rs, NodeTable::reply_readdir: get_inner, then the guard of
\* the Directory is held while the reply is sent
reply_readdir_locks ==
    get_node_locks \o <<Acq("dir"), Await("reply"), Rel("dir")>>

\* src/src/fs.rs, Operation::Read: GistFiles::get, then GistFileNode::read
\* holds the guard of the content while the reply is sent
fs_read_locks(f) ==
    <<Acq("files"), Rel("files"),
      Acq(ContentOf(f)), Await("reply"), Rel(ContentOf(f))>>

\* src/src/fs.rs, GistFileNode::update_content: the guard of the content is a
\* temporary of the assignment
update_content_locks(f) == <<Acq(ContentOf(f)), Rel(ContentOf(f))>>

RECURSIVE ForEach(_, _)
ForEach(seq, i) ==
    IF i > Len(seq) THEN <<>> ELSE seq[i] \o ForEach(seq, i + 1)

\* src/src/fs.rs, GistFiles::update: under the guard of the file map,
\* update_content for the files that are kept and new_node for those that are
\* created; after the block, remove_node for those that are dropped. An update
\* that new_node fails returns from inside the block.
update_locks(kept, created, dropped) ==
    <<Acq("files")>>
    \o ForEach([i \in 1..Len(kept) |-> update_content_locks(kept[i])], 1)
    \o ForEach([i \in 1..created |-> new_node_locks], 1)
    \o <<Rel("files")>>
    \o ForEach([i \in 1..dropped |-> get_node_locks], 1)

\* src/src/lib.rs, GistFs::fetch with the cache expired: the guard of
\* GistFs.state is held while Client::fetch_gist is awaited
fetch_locks == <<Acq("state"), Await("fetch"), Rel("state")>>

\* src/src/lib.rs, do_lookup, do_getattr, do_setattr, do_readdir, do_open,
\* do_read, do_write, do_flush: the guard of GistFs.state is held while the
\* reply is sent
lib_handler_locks == <<Acq("state"), Await("reply"), Rel("state")>>

\* src/node-table, NodeTable::get and forget, Node::remove
nt_get_locks == <<Acq("nt_nodes"), Rel("nt_nodes")>>

\* a lookup that keeps the guard of the nodes while it locks the directory
nt_lookup_keeps_nodes ==
    <<Acq("nt_nodes"), Acq("nt_dir"), Rel("nt_dir"), Rel("nt_nodes")>>

\* src/node-table, NodeTable::lookup: the guard of the nodes is a temporary
\* of the `let parent` statement, dropped before dir.lock()
nt_lookup_locks ==
    <<Acq("nt_nodes"), Rel("nt_nodes"), Acq("nt_dir"), Rel("nt_dir")>>

\* src/node-table, Node::new_child: the guard of the parent's DirNode, and
\* inside it the guard of the nodes
nt_new_child_locks ==
    <<Acq("nt_dir"), Acq("nt_nodes"), Rel("nt_nodes"), Rel("nt_dir")>>

\* src/node-table, Node::readdir: the guard of the DirNode is held while the
\* reply is sent
nt_readdir_locks == <<Acq("nt_dir"), Await("reply"), Rel("nt_dir")>>

\* what a task can be asked to run, in each of the three file systems of the
\* repository: GistFs of src/src/fs.rs over src/src/node.rs, GistFs of
\* src/src/lib.rs, and a file system over the node-table crate
LockPrograms(variant) ==
    IF variant = "fs"
    THEN {get_node_locks, lookup_locks, new_node_locks, reply_readdir_locks}
         \cup {fs_read_locks(f) : f \in LockedFiles}
         \cup {update_locks(<<"a">>, 1, 1)}
    ELSE IF variant = "lib"
    THEN {fetch_locks, lib_handler_locks}
    ELSE {nt_get_locks, nt_lookup_locks, nt_new_child_locks, nt_readdir_locks}

LockVariants == {"fs", "lib", "node-table"}

NoLockCall == [pc |-> "idle", prog |-> <<>>, at |-> 1, holds |-> {}]

\* what the steps of the handlers leave alone here
notLocks == <<tableVars, fsVars, libVars, ntVars, inodeVars>>

\* one of the file systems is mounted, no request in flight
LockInit ==
    /\ calls = [t \in LockTasks |-> NoLockCall]
    /\ \E v \in LockVariants : last = [op |-> "mount", variant |-> v]

\* the locks some task holds
HeldLocks == UNION {calls[t].holds : t \in LockTasks}

\* the step the task is at
Running(t) == calls[t].pc = "run" /\ calls[t].at <= Len(calls[t].prog)
StepOf(t) == calls[t].prog[calls[t].at]

\* a request arrives and its handler starts
LockCallArrives(t, prog) ==
    /\ calls[t].pc = "idle"
    /\ calls' = [calls EXCEPT ![t] = [pc |-> "run", prog |-> prog, at |-> 1, holds |-> {}]]
    /\ UNCHANGED notLocks

\* futures::lock::Mutex: `lock().await` returns once no guard of it is alive
LockAcquire(t) ==
    /\ Running(t)
    /\ StepOf(t).op = "acq"
    /\ StepOf(t).lock \notin HeldLocks
    /\ calls' = [calls EXCEPT ![t].holds = @ \cup {StepOf(t).lock}, ![t].at = @ + 1]
    /\ UNCHANGED notLocks

\* the awaited reply has been written, or the remote fetch has returned
LockAwait(t) ==
    /\ Running(t)
    /\ StepOf(t).op = "await"
    /\ calls' = [calls EXCEPT ![t].at = @ + 1]
    /\ UNCHANGED notLocks

\* a guard goes out of scope
LockRelease(t) ==
    /\ Running(t)
    /\ StepOf(t).op = "rel"
    /\ calls' = [calls EXCEPT ![t].holds = @ \ {StepOf(t).lock}, ![t].at = @ + 1]
    /\ UNCHANGED notLocks

\* the handler returns
LockCallReturns(t) ==
    /\ calls[t].pc = "run"
    /\ calls[t].at = Len(calls[t].prog) + 1
    /\ calls' = [calls EXCEPT ![t] = [NoLockCall EXCEPT !.pc = "done"]]
    /\ UNCHANGED notLocks

LockStep(t) ==
    \/ LockAcquire(t)
    \/ LockAwait(t)
    \/ LockRelease(t)
    \/ LockCallReturns(t)

LockNext ==
    \/ \E t \in LockTasks, prog \in LockPrograms(last.variant) : LockCallArrives(t, prog)
    \/ \E t \in LockTasks : LockAcquire(t)
    \/ \E t \in LockTasks : LockAwait(t)
    \/ \E t \in LockTasks : LockRelease(t)
    \/ \E t \in LockTasks : LockCallReturns(t)

SpecLocksInit == LockInit /\ NoTable /\ NoFs /\ NoLib /\ NoNt /\ NoINode
SpecLocks == SpecLocksInit /\ [][LockNext]_vars

\* the executor polls every task that can go on: a reply that is awaited is
\* written, a remote fetch returns, and a Mutex that is free is handed to a
\* task that waits for it
SpecLocksFair == SpecLocks /\ \A t \in LockTasks : WF_vars(LockStep(t))

\* t waits for a lock that u holds
WaitsFor(t, u) ==
    /\ Running(t)
    /\ StepOf(t).op = "acq"
    /\ StepOf(t).lock \in calls[u].holds

\* a set of tasks each of which waits for a lock another one of them holds
CyclicWait ==
    \E S \in (SUBSET LockTasks) \ {{}} : \A t \in S : \E u \in S : WaitsFor(t, u)

\* C32: no set of tasks ever waits cyclically for the locks of the node table,
\* the directories, the file map, the state and the contents, and the handler
\* of every request that arrived returns.
C32_NoDeadlock ==
    /\ [](~CyclicWait)
    /\ \A t \in LockTasks : (calls[t].pc = "run") ~> (calls[t].pc = "done")

\* an update holds the file map and waits for the node table, which a lookup
\* holds that waits for the directory, which a readdir holds while it replies
C32_Witness ==
    \E t \in LockTasks, u \in LockTasks, v \in LockTasks :
        /\ WaitsFor(t, u) /\ calls[t].holds = {"files"}
        /\ WaitsFor(u, v) /\ calls[u].holds = {"nodes"}
        /\ Running(v) /\ StepOf(v) = Await("reply") /\ calls[v].holds = {"dir"}

====
